---- MODULE Spec2Model ----
(***************************************************************************)
(* A model of the query pipeline of agent_core: the LangGraph workflow     *)
(* (graph_builder.py), its five nodes (graph_nodes.py), the entry point    *)
(* run_agent (orchestrator.py) and the tabular query engine the retrieval  *)
(* node calls (data_loader.py).                                            *)
(*                                                                         *)
(* Texts are TLA+ strings and are processed character by character, the    *)
(* way the Python code processes them (lower(), strip(), replace(),        *)
(* substring tests with "in", the regular expressions of the fallback).    *)
(* Python values of dynamic type (the parsed JSON of the extractor, the    *)
(* cells of the dataset) are tagged records [t |-> type, v |-> value].     *)
(***************************************************************************)
EXTENDS Integers, Sequences, FiniteSets, TLC

VARIABLES
    state,      \* the AgentState mapping the nodes mutate
    pc,         \* the node the graph runs next, or "return" / "done" / "raised"
    executed,   \* the nodes that have started, in order (history)
    llm_calls,  \* the calls of llm.invoke: <<node, reply>>, in order (history)
    raised,     \* the exception that left graph_app.invoke, or None
    returned,   \* what run_agent returned: [answer, debug_state], or None
    file,       \* the dataset file at DATA_PATH
    cache,      \* the lru_cache(maxsize=1) of get_assets_df
    engine,     \* direct calls of the query engine: their arguments and results
    upload,     \* persist_uploaded_dataset: its position and the file it writes
    readers     \* the concurrent calls of get_assets_df(): position and result

vars == <<state, pc, executed, llm_calls, raised, returned, file, cache, engine,
          upload, readers>>

\* Python's None where a text is expected (intent, answer, error, a prompt).
None == "<None>"

(***************************************************************************)
(* Text: the string operations the code uses.                              *)
(***************************************************************************)

UpperChars == "ABCDEFGHIJKLMNOPQRSTUVWXYZ"

LowerChars == "abcdefghijklmnopqrstuvwxyz"

Digits == "0123456789"

\* s[i-1], positions from 1; the empty text outside s
CharAt(s, i) == IF i >= 1 /\ i <= Len(s) THEN SubSeq(s, i, i) ELSE ""

\* c in chars, for a one-character c
InChars(c, chars) == \E i \in 1..Len(chars) : CharAt(chars, i) = c

IsDigit(c) == InChars(c, Digits)

\* the characters str.strip() and the regex class \s remove or match
IsSpace(c) == c = " " \/ c = "\n" \/ c = "\t"

LowerChar(c) ==
    IF InChars(c, UpperChars)
    THEN CharAt(LowerChars, CHOOSE i \in 1..Len(UpperChars) : CharAt(UpperChars, i) = c)
    ELSE c

\* str.lower(), by halves
RECURSIVE Lower(_)
Lower(s) ==
    IF Len(s) <= 1 THEN LowerChar(s)
    ELSE Lower(SubSeq(s, 1, Len(s) \div 2)) \o Lower(SubSeq(s, Len(s) \div 2 + 1, Len(s)))

\* the least member of a non-empty set of integers
Min(S) == CHOOSE x \in S : \A y \in S : x <= y

\* str.lstrip(): from the first character that is not whitespace
LStrip(s) ==
    SubSeq(s, Min({i \in 1..(Len(s) + 1) : i > Len(s) \/ ~IsSpace(CharAt(s, i))}), Len(s))

\* str.rstrip(): to the last character that is not whitespace
RStrip(s) ==
    SubSeq(s, 1, Len(s) - Min({k \in 0..Len(s) : k = Len(s) \/ ~IsSpace(CharAt(s, Len(s) - k))}))

\* str.strip()
Strip(s) == RStrip(LStrip(s))

\* s[i:].startswith(k), positions from 1
StartsAt(s, i, k) == i + Len(k) - 1 <= Len(s) /\ SubSeq(s, i, i + Len(k) - 1) = k

\* k in s
Contains(s, k) == \E i \in 1..(Len(s) + 1) : StartsAt(s, i, k)

\* any(k in s for k in keywords)
AnyIn(keywords, s) == \E k \in keywords : Contains(s, k)

\* s.find(k) from position i: the first position at or after i where k starts, 0 if none
Find(s, i, k) ==
    IF \E j \in i..Len(s) : StartsAt(s, j, k)
    THEN Min({j \in i..Len(s) : StartsAt(s, j, k)}) ELSE 0

\* s.replace(old, new), for a non-empty old: leftmost matches, not overlapping
RECURSIVE Replace(_, _, _)
Replace(s, old, new) ==
    IF Find(s, 1, old) = 0 THEN s
    ELSE SubSeq(s, 1, Find(s, 1, old) - 1) \o new
         \o Replace(SubSeq(s, Find(s, 1, old) + Len(old), Len(s)), old, new)

\* the end (exclusive) of the longest run of digits from position i: \d+ or \d*
DigitsEnd(s, i) == Min({j \in i..(Len(s) + 1) : j > Len(s) \/ ~IsDigit(CharAt(s, j))})

\* the end (exclusive) of the longest run of whitespace from position i: \s+
SpacesEnd(s, i) == Min({j \in i..(Len(s) + 1) : j > Len(s) \/ ~IsSpace(CharAt(s, j))})

\* int(text) of a text of decimal digits
RECURSIVE ParseInt(_)
ParseInt(s) ==
    IF s = "" THEN 0
    ELSE 10 * ParseInt(SubSeq(s, 1, Len(s) - 1))
         + ((CHOOSE i \in 1..10 : CharAt(Digits, i) = CharAt(s, Len(s))) - 1)

\* f"{n:02d}" of an integer
Pad2(n) == IF n >= 0 /\ n < 10 THEN "0" \o ToString(n) ELSE ToString(n)

\* ", ".join(texts) with separator sep
RECURSIVE Join(_, _)
Join(sep, texts) ==
    IF texts = <<>> THEN ""
    ELSE IF Len(texts) = 1 THEN texts[1]
    ELSE texts[1] \o sep \o Join(sep, Tail(texts))

\* the characters of the model's texts in ASCII order, for comparing texts
AsciiChars == " !\"'(),-.0123456789:=ABCDEFGHIJKLMNOPQRSTUVWXYZ_abcdefghijklmnopqrstuvwxyz{}"

Ord(c) == CHOOSE i \in 1..Len(AsciiChars) : CharAt(AsciiChars, i) = c

\* a < b for two texts, as Python and pandas order them
RECURSIVE StrLess(_, _)
StrLess(a, b) ==
    IF b = "" THEN FALSE
    ELSE IF a = "" THEN TRUE
    ELSE IF CharAt(a, 1) = CharAt(b, 1)
         THEN StrLess(SubSeq(a, 2, Len(a)), SubSeq(b, 2, Len(b)))
         ELSE Ord(CharAt(a, 1)) < Ord(CharAt(b, 1))

Abs(n) == IF n < 0 THEN -n ELSE n

Pad3(n) == IF n < 10 THEN "00" \o ToString(n) ELSE IF n < 100 THEN "0" \o ToString(n) ELSE ToString(n)

\* f"{n:,}" of a non-negative integer
RECURSIVE Grouped(_)
Grouped(n) ==
    IF n < 1000 THEN ToString(n) ELSE Grouped(n \div 1000) \o "," \o Pad3(n % 1000)

\* f"{x:,.2f}"; the model's amounts are whole numbers
Money(n) == (IF n < 0 THEN "-" ELSE "") \o Grouped(Abs(n)) \o ".00"

(***************************************************************************)
(* Python values of dynamic type.                                          *)
(***************************************************************************)

PyNone == [t |-> "none"]

\* float("nan"): a missing cell of the dataset
NaN == [t |-> "nan"]

PyStr(s) == [t |-> "str", v |-> s]

PyInt(n) == [t |-> "int", v |-> n]

\* a float that holds a whole number: v is that number
PyFloat(n) == [t |-> "float", v |-> n]

\* a list: v is the sequence of its items
PyList(q) == [t |-> "list", v |-> q]

\* a dict: v is the sequence of its <<key, value>> pairs in insertion order
PyDict(q) == [t |-> "dict", v |-> q]

\* bool(x)
Truthy(x) ==
    CASE x.t = "none" -> FALSE
      [] x.t = "str" -> x.v # ""
      [] x.t \in {"int", "float"} -> x.v # 0
      [] x.t = "list" -> x.v # <<>>
      [] x.t = "dict" -> x.v # <<>>
      [] OTHER -> TRUE

\* type(x).__name__, as Python's messages name it
TypeName(x) ==
    CASE x.t = "none" -> "NoneType"
      [] x.t = "nan" -> "float"
      [] OTHER -> x.t

\* str(x) of a value that is None, a text or an integer (an f-string's "{x}")
PyToStr(x) ==
    CASE x.t = "none" -> "None"
      [] x.t = "str" -> x.v
      [] x.t = "int" -> ToString(x.v)
      [] x.t = "float" -> ToString(x.v) \o ".0"
      [] x.t = "nan" -> "nan"
      [] OTHER -> "<" \o x.t \o ">"

\* k in d, for the pairs d of a dict
DictHas(d, k) == \E i \in 1..Len(d) : d[i][1] = k

\* d.get(k, default)
DictGet(d, k, default) ==
    IF DictHas(d, k) THEN d[CHOOSE i \in 1..Len(d) : d[i][1] = k][2] ELSE default

\* d[k] = v
DictSet(d, k, v) ==
    IF DictHas(d, k)
    THEN [d EXCEPT ![CHOOSE i \in 1..Len(d) : d[i][1] = k] = <<k, v>>]
    ELSE Append(d, <<k, v>>)

\* the outcome of a call: a value, or an exception of a class with its message
Ok(v) == [ok |-> TRUE, val |-> v]

Raise(exc, msg) == [ok |-> FALSE, exc |-> exc, msg |-> msg]

(***************************************************************************)
(* data_loader.py: the dataset and its cache.                              *)
(***************************************************************************)

REQUIRED_COLUMNS ==
    <<"entity_name", "property_name", "tenant_name", "ledger_type", "ledger_group",
      "ledger_category", "ledger_code", "ledger_description", "month", "quarter",
      "year", "profit">>

PROPERTY_COLUMN == "property_name"

TENANT_COLUMN == "tenant_name"

VALUE_COLUMN == "profit"

YEAR_COLUMN == "year"

MONTH_COLUMN == "month"

DATA_PATH == "data/assets.parquet"

\* one row of a source table: every required column but those of `without`
Row(entity, property, tenant, ltype, month, quarter, year, profit, without) ==
    [c \in {REQUIRED_COLUMNS[i] : i \in 1..Len(REQUIRED_COLUMNS)} \ without |->
        CASE c = "entity_name" -> entity
          [] c = "property_name" -> property
          [] c = "tenant_name" -> tenant
          [] c = "ledger_type" -> ltype
          [] c = "ledger_group" -> PyStr("operating")
          [] c = "ledger_category" -> PyStr("general")
          [] c = "ledger_code" -> PyInt(4000)
          [] c = "ledger_description" -> PyStr("ledger entry")
          [] c = "month" -> month
          [] c = "quarter" -> quarter
          [] c = "year" -> year
          [] OTHER -> profit]

SourceRows(without) ==
    << Row(PyStr("Entity A"), PyStr("Building 17"), PyStr("Tenant 3"), PyStr("revenue"),
           PyStr("2025-M01"), PyStr("2025-Q1"), PyInt(2025), PyInt(1000), without),
       Row(PyStr("Entity A"), PyStr("Building 17"), NaN, PyStr("expenses"),
           PyStr("2025-M02"), PyStr("2025-Q1"), PyInt(2025), PyInt(-200), without),
       Row(PyStr("Entity B"), PyStr("Building 22"), PyStr("Tenant 8"), PyStr("revenue"),
           PyStr("2024-M12"), PyStr("2024-Q4"), PyInt(2024), PyInt(600), without),
       Row(PyStr("Entity B"), PyStr("Building 170"), PyStr("Tenant 3"), PyStr("revenue"),
           PyStr("2024-M12"), PyStr("2024-Q4"), NaN, NaN, without) >>

\* what DATA_PATH can hold: nothing, a table with every required column, the same
\* table without its profit column, a table with the columns and no row
NoFile == [exists |-> FALSE, columns |-> {}, rows |-> <<>>]

GoodFile == [exists |-> TRUE, columns |-> DOMAIN SourceRows({})[1], rows |-> SourceRows({})]

BadFile ==
    [exists |-> TRUE, columns |-> DOMAIN SourceRows({"profit"})[1],
     rows |-> SourceRows({"profit"})]

EmptyFile == [exists |-> TRUE, columns |-> DOMAIN SourceRows({})[1], rows |-> <<>>]

\* a table whose month and year columns disagree: a row without a year and a row
\* whose month is written in lower case
StrayRows ==
    << Row(PyStr("Entity A"), PyStr("Building 17"), PyStr("Tenant 3"), PyStr("revenue"),
           PyStr("2025-M01"), PyStr("2025-Q1"), PyInt(2025), PyInt(1000), {}),
       Row(PyStr("Entity A"), PyStr("Building 17"), PyStr("Tenant 3"), PyStr("revenue"),
           PyStr("2025-M01"), PyStr("2025-Q1"), NaN, PyInt(50), {}),
       Row(PyStr("Entity B"), PyStr("Building 22"), PyStr("Tenant 8"), PyStr("revenue"),
           PyStr("2025-m01"), PyStr("2025-Q1"), PyInt(2025), PyInt(7), {}) >>

StrayFile == [exists |-> TRUE, columns |-> DOMAIN StrayRows[1], rows |-> StrayRows]

Files == {NoFile, GoodFile, BadFile, EmptyFile}

\* [col for col in REQUIRED_COLUMNS if col not in df.columns]
MissingColumns(columns) == SelectSeq(REQUIRED_COLUMNS, LAMBDA c : c \notin columns)

\* _validate_columns(df)
ValidateColumns(columns) ==
    IF MissingColumns(columns) # <<>>
    THEN Raise("DatasetConfigError",
               "Dataset is missing required columns: " \o Join(", ", MissingColumns(columns)))
    ELSE Ok(PyNone)

IsNumeral(s) == s # "" /\ DigitsEnd(s, 1) = Len(s) + 1

\* pd.to_numeric(cell, errors='coerce'); the model's numerals are unsigned
ToNumeric(cell) ==
    CASE cell.t = "int" -> cell
      [] cell.t = "str" /\ IsNumeral(cell.v) -> PyInt(ParseInt(cell.v))
      [] OTHER -> NaN

\* the cleaning of get_assets_df, row by row
CleanRow(row) ==
    [row EXCEPT
        ![VALUE_COLUMN] = IF ToNumeric(@) = NaN THEN PyInt(0) ELSE ToNumeric(@),
        ![YEAR_COLUMN] = ToNumeric(@),
        ![MONTH_COLUMN] = PyStr(PyToStr(@))]

CleanRows(rows) == [i \in 1..Len(rows) |-> CleanRow(rows[i])]

\* the columns pandas holds as float64: numeric cells, one of them missing
\* (year and profit after to_numeric; month is text after astype(str))
FloatColumns(columns, rows) ==
    {c \in columns \ {MONTH_COLUMN} :
        LET cell(i) == IF c \in {VALUE_COLUMN, YEAR_COLUMN} THEN ToNumeric(rows[i][c])
                       ELSE rows[i][c]
        IN  /\ \A i \in 1..Len(rows) : cell(i).t \in {"int", "nan"}
            /\ \E i \in 1..Len(rows) : cell(i).t = "nan"}

\* the body of get_assets_df: read DATA_PATH, validate, clean
LoadAssetsDf(f) ==
    IF ~f.exists
    THEN Raise("FileNotFoundError", "Dataset file not found at " \o DATA_PATH)
    ELSE IF ~ValidateColumns(f.columns).ok THEN ValidateColumns(f.columns)
    ELSE Ok([columns |-> f.columns, floats |-> FloatColumns(f.columns, f.rows),
             rows |-> CleanRows(f.rows)])

\* the lru_cache(maxsize=1): empty, or the one DataFrame a call returned
EmptyCache == [loaded |-> FALSE, df |-> [columns |-> {}, floats |-> {}, rows |-> <<>>]]

\* get_assets_df(): the cached DataFrame, else the load (an exception is not cached)
get_assets_df(f, c) == IF c.loaded THEN Ok(c.df) ELSE LoadAssetsDf(f)

\* the cache after a call of get_assets_df()
CacheAfter(f, c) ==
    IF c.loaded \/ ~LoadAssetsDf(f).ok THEN c
    ELSE [loaded |-> TRUE, df |-> LoadAssetsDf(f).val]

(***************************************************************************)
(* data_loader.py: the query engine.  Every operation takes the outcome    *)
(* of its own get_assets_df() call as `got`.  Property queries and filter  *)
(* texts are patterns without regular-expression metacharacters, and a     *)
(* year, a month and a filter value are None, a text or an integer.        *)
(***************************************************************************)

\* a cell as Python sees it: a number of a float64 column is a float
Native(df, c, cell) == IF cell.t = "int" /\ c \in df.floats THEN PyFloat(cell.v) ELSE cell

\* df[col].astype(str), for one cell
CellText(df, c, cell) == PyToStr(Native(df, c, cell))

\* rows.to_dict(orient="records")
Records(df, rows) ==
    [i \in 1..Len(rows) |-> [c \in DOMAIN rows[i] |-> Native(df, c, rows[i][c])]]

\* (df[col] == value), for one cell
CellEq(cell, value) == cell.t \in {"int", "str"} /\ cell = value

\* (df[col].astype(str).str.contains(text, case=False, na=False)), for one cell
CellContains(df, c, cell, text) == Contains(Lower(CellText(df, c, cell)), Lower(text))

RECURSIVE SumProfit(_)
SumProfit(rows) ==
    IF rows = <<>> THEN 0 ELSE rows[1][VALUE_COLUMN].v + SumProfit(Tail(rows))

\* _filter_by_property(df, property_query)
filter_by_property(df, property_query) ==
    IF property_query.t # "str"
    THEN Raise("TypeError", "first argument must be string or compiled pattern")
    ELSE Ok(SelectSeq(df.rows,
                LAMBDA r : CellContains(df, PROPERTY_COLUMN, r[PROPERTY_COLUMN],
                                        property_query.v)))

\* the distinct values of a column that are not missing, in first-seen order
RECURSIVE Distinct(_, _, _)
Distinct(rows, c, seen) ==
    IF rows = <<>> THEN seen
    ELSE LET cell == rows[1][c]
         IN  Distinct(Tail(rows), c,
                 IF cell.t = "nan" \/ \E i \in 1..Len(seen) : seen[i] = cell
                 THEN seen ELSE Append(seen, cell))

\* sorted(q), stable, by the strict order Before (data_loader.py: sort_values,
\* graph_nodes.py: sorted): an item's place is the number of
\* items that precede it, earlier equals included
Sorted(q, Before(_, _)) ==
    LET place(i) == 1 + Cardinality({j \in 1..Len(q) :
                            Before(q[j], q[i]) \/ (~Before(q[i], q[j]) /\ j < i)})
    IN  [k \in 1..Len(q) |-> q[CHOOSE i \in 1..Len(q) : place(i) = k]]

\* the order of group keys: texts as texts, numbers as numbers
KeyLess(a, b) == IF a.t = "str" THEN StrLess(a.v, b.v) ELSE a.v < b.v

\* subset.groupby(c)[VALUE_COLUMN].sum().to_dict(): <<key, sum>> pairs, keys ascending
GroupSum(df, rows, c) ==
    LET keys == Sorted(Distinct(rows, c, <<>>), KeyLess)
    IN  [i \in 1..Len(keys) |->
            <<Native(df, c, keys[i]), SumProfit(SelectSeq(rows, LAMBDA r : r[c] = keys[i]))>>]

\* subset[c].value_counts().to_dict(): <<key, count>> pairs, counts descending
ValueCounts(df, rows, c) ==
    LET keys == Distinct(rows, c, <<>>)
        pairs == [i \in 1..Len(keys) |->
                     <<Native(df, c, keys[i]),
                       Len(SelectSeq(rows, LAMBDA r : r[c] = keys[i]))>>]
    IN  Sorted(pairs, LAMBDA x, y : x[2] > y[2])

\* pairs sorted by value, descending (sort_values(ascending=False); sorted(reverse=True))
ByValueDesc(pairs) == Sorted(pairs, LAMBDA x, y : x[2] > y[2])

\* get_single_asset(property_query): None when no row matches
get_single_asset(got, property_query) ==
    IF ~got.ok THEN got
    ELSE LET sub == filter_by_property(got.val, property_query)
         IN  IF ~sub.ok THEN sub
             ELSE IF sub.val = <<>> THEN Ok(PyNone)
             ELSE Ok([t |-> "summary",
                      property_name |-> sub.val[1][PROPERTY_COLUMN],
                      entity_name |-> sub.val[1]["entity_name"],
                      total_records |-> Len(sub.val),
                      total_profit |-> SumProfit(sub.val),
                      tenants |-> Distinct(sub.val, TENANT_COLUMN, <<>>),
                      ledger_totals |-> ByValueDesc(GroupSum(got.val, sub.val, "ledger_type"))])

\* _aggregate_value giving zero totals for a property that matches no row
aggregate_value_ZeroWhenUnmatched(df, property_query) ==
    LET sub == filter_by_property(df, property_query)
    IN  IF ~sub.ok THEN sub
        ELSE IF sub.val = <<>>
        THEN Ok([property_name |-> property_query, value |-> 0, records |-> 0])
        ELSE Ok([property_name |-> sub.val[1][PROPERTY_COLUMN],
                 value |-> SumProfit(sub.val),
                 records |-> Len(sub.val)])

\* _aggregate_value(property_query), the inner function of compare_assets_by_price
aggregate_value(df, property_query) ==
    LET sub == filter_by_property(df, property_query)
    IN  IF ~sub.ok THEN sub
        ELSE IF sub.val = <<>>
        THEN Raise("ValueError", "Property with name like '" \o property_query.v
                                 \o "' not found in dataset.")
        ELSE Ok([property_name |-> sub.val[1][PROPERTY_COLUMN],
                 value |-> SumProfit(sub.val),
                 records |-> Len(sub.val)])

\* compare_assets_by_price(address1, address2)
compare_assets_by_price(got, address1, address2) ==
    IF ~got.ok THEN got
    ELSE LET asset_1 == aggregate_value(got.val, address1)
             asset_2 == aggregate_value(got.val, address2)
         IN  IF ~asset_1.ok THEN asset_1
             ELSE IF ~asset_2.ok THEN asset_2
             ELSE Ok([asset_1 |-> asset_1.val, asset_2 |-> asset_2.val,
                      difference |-> asset_1.val.value - asset_2.val.value])

\* f"{month:02d}": only an integer takes the format code d
FormatMonth(month) ==
    CASE month.t = "int" -> Ok(Pad2(month.v))
      [] month.t = "str" ->
            Raise("ValueError", "Unknown format code 'd' for object of type 'str'")
      [] OTHER ->
            Raise("TypeError", "unsupported format string passed to "
                               \o TypeName(month) \o ".__format__")

\* compute_total_pnl taking a month without a year as no month at all
compute_total_pnl_MonthIgnored(got, year, month) ==
    IF ~got.ok THEN got
    ELSE LET byYear == IF year.t # "none"
                       THEN SelectSeq(got.val.rows, LAMBDA r : CellEq(r[YEAR_COLUMN], year))
                       ELSE got.val.rows
             mm == FormatMonth(month)
             month_str == PyToStr(year) \o "-M" \o mm.val
             subset == IF month.t # "none" /\ year.t # "none"
                       THEN SelectSeq(byYear,
                                LAMBDA r : CellEq(r[MONTH_COLUMN], PyStr(month_str)))
                       ELSE byYear
         IN  IF month.t # "none" /\ year.t # "none" /\ ~mm.ok THEN mm
             ELSE IF subset = <<>>
             THEN Raise("ValueError", "No financial records found for the period: "
                        \o (IF month.t = "none" THEN PyToStr(year) ELSE month_str) \o ".")
             ELSE Ok(SumProfit(subset))

\* compute_total_pnl returning the sum of an empty selection
compute_total_pnl_EmptySum(got, year, month) ==
    IF ~got.ok THEN got
    ELSE LET byYear == IF year.t # "none"
                       THEN SelectSeq(got.val.rows, LAMBDA r : CellEq(r[YEAR_COLUMN], year))
                       ELSE got.val.rows
             mm == FormatMonth(month)
             month_str == PyToStr(year) \o "-M" \o mm.val
             subset == IF month.t # "none"
                       THEN SelectSeq(byYear,
                                LAMBDA r : CellEq(r[MONTH_COLUMN], PyStr(month_str)))
                       ELSE byYear
         IN  IF month.t # "none" /\ year.t = "none"
             THEN Raise("ValueError",
                    "To filter by month, you must also specify the year (e.g., 'January 2025').")
             ELSE IF month.t # "none" /\ ~mm.ok THEN mm
             ELSE Ok(SumProfit(subset))

\* compute_total_pnl(year, month)
compute_total_pnl(got, year, month) ==
    IF ~got.ok THEN got
    ELSE LET byYear == IF year.t # "none"
                       THEN SelectSeq(got.val.rows, LAMBDA r : CellEq(r[YEAR_COLUMN], year))
                       ELSE got.val.rows
             mm == FormatMonth(month)
             month_str == PyToStr(year) \o "-M" \o mm.val
             subset == IF month.t # "none"
                       THEN SelectSeq(byYear,
                                LAMBDA r : CellEq(r[MONTH_COLUMN], PyStr(month_str)))
                       ELSE byYear
         IN  IF month.t # "none" /\ year.t = "none"
             THEN Raise("ValueError",
                    "To filter by month, you must also specify the year (e.g., 'January 2025').")
             ELSE IF month.t # "none" /\ ~mm.ok THEN mm
             ELSE IF subset = <<>>
             THEN Raise("ValueError", "No financial records found for the period: "
                        \o (IF month.t = "none" THEN PyToStr(year) ELSE month_str) \o ".")
             ELSE Ok(SumProfit(subset))

\* one filter that selects nothing when its column is not in the dataset
ApplyFilter_StrictColumns(df, rows, column, value) ==
    IF column \notin df.columns THEN <<>>
    ELSE IF value.t = "str"
    THEN SelectSeq(rows, LAMBDA r : CellContains(df, column, r[column], value.v))
    ELSE SelectSeq(rows, LAMBDA r : CellEq(r[column], value))

\* the rows left after one filter of query_data_flexible
ApplyFilter(df, rows, column, value) ==
    IF column \notin df.columns THEN rows
    ELSE IF value.t = "str"
    THEN SelectSeq(rows, LAMBDA r : CellContains(df, column, r[column], value.v))
    ELSE SelectSeq(rows, LAMBDA r : CellEq(r[column], value))

RECURSIVE ApplyFilters(_, _, _)
ApplyFilters(df, rows, pairs) ==
    IF pairs = <<>> THEN rows
    ELSE ApplyFilters(df, ApplyFilter(df, rows, pairs[1][1], pairs[1][2]), Tail(pairs))

\* subset.head(limit)
HeadRows(rows, limit) == SubSeq(rows, 1, IF Len(rows) < limit THEN Len(rows) ELSE limit)

\* query_data_flexible without the branch for an empty selection
query_data_flexible_NoEmptyBranch(got, filters, action, limit) ==
    IF ~got.ok THEN got
    ELSE IF Truthy(filters) /\ filters.t # "dict"
    THEN Raise("AttributeError", "'" \o TypeName(filters) \o "' object has no attribute 'items'")
    ELSE LET df == got.val
             subset == IF Truthy(filters) THEN ApplyFilters(df, df.rows, filters.v)
                       ELSE df.rows
             result == [status |-> "success", filters |-> filters, count |-> Len(subset),
                        total_profit |-> SumProfit(subset)]
         IN  IF action = PyStr("show")
             THEN Ok(result @@ [rows |-> Records(df, HeadRows(subset, limit)),
                                showing |-> Len(HeadRows(subset, limit)),
                                total_rows |-> Len(subset)])
             ELSE IF action = PyStr("aggregate")
             THEN Ok(result @@ [aggregations |->
                        [by_ledger_type |-> GroupSum(df, subset, "ledger_type"),
                         by_property |-> GroupSum(df, subset, "property_name"),
                         by_year |-> GroupSum(df, subset, "year")]])
             ELSE IF action = PyStr("count")
             THEN Ok(result @@ [counts |->
                        [total |-> Len(subset),
                         by_ledger_type |-> ValueCounts(df, subset, "ledger_type"),
                         by_property |-> ValueCounts(df, subset, "property_name")]])
             ELSE Ok(result)

\* query_data_flexible(filters, action, limit)
query_data_flexible(got, filters, action, limit) ==
    IF ~got.ok THEN got
    ELSE IF Truthy(filters) /\ filters.t # "dict"
    THEN Raise("AttributeError", "'" \o TypeName(filters) \o "' object has no attribute 'items'")
    ELSE LET df == got.val
             subset == IF Truthy(filters) THEN ApplyFilters(df, df.rows, filters.v)
                       ELSE df.rows
             result == [status |-> "success", filters |-> filters, count |-> Len(subset),
                        total_profit |-> SumProfit(subset)]
         IN  IF subset = <<>>
             THEN Ok([status |-> "no_data",
                      message |-> "No records found matching the filters.",
                      filters |-> filters, count |-> 0])
             ELSE IF action = PyStr("show")
             THEN Ok(result @@ [rows |-> Records(df, HeadRows(subset, limit)),
                                showing |-> Len(HeadRows(subset, limit)),
                                total_rows |-> Len(subset)])
             ELSE IF action = PyStr("aggregate")
             THEN Ok(result @@ [aggregations |->
                        [by_ledger_type |-> GroupSum(df, subset, "ledger_type"),
                         by_property |-> GroupSum(df, subset, "property_name"),
                         by_year |-> GroupSum(df, subset, "year")]])
             ELSE IF action = PyStr("count")
             THEN Ok(result @@ [counts |->
                        [total |-> Len(subset),
                         by_ledger_type |-> ValueCounts(df, subset, "ledger_type"),
                         by_property |-> ValueCounts(df, subset, "property_name")]])
             ELSE Ok(result)

\* summarize_asset_record(record)
summarize_asset_record(record) ==
    Join("\n",
        << "Property: " \o PyToStr(record.property_name),
           "Entity: " \o PyToStr(record.entity_name),
           "Total records: " \o ToString(record.total_records),
           "Net Profit (P&L): " \o Money(record.total_profit) >>
        \o (IF record.tenants # <<>>
            THEN << "Tenants: "
                    \o Join(", ", [i \in 1..Len(record.tenants) |-> record.tenants[i].v]) >>
            ELSE <<>>)
        \o (IF record.ledger_totals # <<>>
            THEN << "Breakdown by Ledger Type:" >>
                 \o [i \in 1..Len(record.ledger_totals) |->
                        "  - " \o PyToStr(record.ledger_totals[i][1]) \o ": "
                        \o Money(record.ledger_totals[i][2])]
            ELSE <<>>))

(***************************************************************************)
(* The language model: llm.invoke returns a text (resp.content) or fails.  *)
(***************************************************************************)

LLMFailure == Raise("Exception", "model call failed")

\* what the model may answer to the intent prompt
IntentReplies ==
    {"general_qa", "data_query", " Total_PNL\n", "asset_details", "price_comparison",
     "I think this is a comparison", ""}

\* what the model may answer to the extraction prompt; ''' stands for the Markdown
\* code fence, three backquotes, which a TLA+ string cannot hold
ExtractReplies ==
    {"not json at all",
     "",
     "[1, 2]",
     "'''json\n{\"addresses\": [\"Building 17\", \"Building 22\"], \"year\": null, \"month\": null, \"filters\": {}, \"action\": \"show\"}\n'''",
     "{\"addresses\": [], \"year\": 2025, \"month\": 1, \"filters\": {}, \"action\": \"aggregate\"}",
     "{\"addresses\": [], \"year\": null, \"month\": 3}",
     "{\"filters\": {\"property_name\": \"Building 17\"}, \"action\": \"count\"}",
     "{\"filters\": null}",
     "{\"filters\": {\"property_name\": 17}}",
     "{\"addresses\": \"Building 17\", \"year\": \"2025\", \"month\": \"January\", \"filters\": {\"month\": \"2025-M01\"}, \"action\": \"show\"}",
     "{\"addresses\": [\"Building 17\", \"Building 999\"]}",
     "{\"addresses\": [\"Building 17\"], \"year\": 2025, \"filters\": null, \"action\": \"show\"}",
     "{\"addresses\": 5, \"filters\": {\"ledger_type\": \"zzz\"}, \"action\": \"show\"}"}

\* what the model may answer to the general Q&A prompt
AnswerReplies == {"I can answer questions about the ledger of your properties.", ""}

\* llm.invoke(...): one of the replies, or a failure
Invoke(replies) == {Ok(r) : r \in replies} \cup {LLMFailure}

\* json.loads(content), on the documents the model's replies hold once their fences
\* are stripped; every other text is not JSON
json_loads(content) ==
    CASE content = "[1, 2]" -> Ok(PyList(<<PyInt(1), PyInt(2)>>))
      [] content = "{\"addresses\": [\"Building 17\", \"Building 22\"], \"year\": null, \"month\": null, \"filters\": {}, \"action\": \"show\"}" ->
            Ok(PyDict(<< <<"addresses", PyList(<<PyStr("Building 17"), PyStr("Building 22")>>)>>,
                         <<"year", PyNone>>, <<"month", PyNone>>,
                         <<"filters", PyDict(<<>>)>>, <<"action", PyStr("show")>> >>))
      [] content = "{\"addresses\": [], \"year\": 2025, \"month\": 1, \"filters\": {}, \"action\": \"aggregate\"}" ->
            Ok(PyDict(<< <<"addresses", PyList(<<>>)>>, <<"year", PyInt(2025)>>,
                         <<"month", PyInt(1)>>, <<"filters", PyDict(<<>>)>>,
                         <<"action", PyStr("aggregate")>> >>))
      [] content = "{\"addresses\": [], \"year\": null, \"month\": 3}" ->
            Ok(PyDict(<< <<"addresses", PyList(<<>>)>>, <<"year", PyNone>>,
                         <<"month", PyInt(3)>> >>))
      [] content = "{\"filters\": {\"property_name\": \"Building 17\"}, \"action\": \"count\"}" ->
            Ok(PyDict(<< <<"filters", PyDict(<< <<"property_name", PyStr("Building 17")>> >>)>>,
                         <<"action", PyStr("count")>> >>))
      [] content = "{\"filters\": null}" ->
            Ok(PyDict(<< <<"filters", PyNone>> >>))
      [] content = "{\"filters\": {\"property_name\": 17}}" ->
            Ok(PyDict(<< <<"filters", PyDict(<< <<"property_name", PyInt(17)>> >>)>> >>))
      [] content = "{\"addresses\": \"Building 17\", \"year\": \"2025\", \"month\": \"January\", \"filters\": {\"month\": \"2025-M01\"}, \"action\": \"show\"}" ->
            Ok(PyDict(<< <<"addresses", PyStr("Building 17")>>, <<"year", PyStr("2025")>>,
                         <<"month", PyStr("January")>>,
                         <<"filters", PyDict(<< <<"month", PyStr("2025-M01")>> >>)>>,
                         <<"action", PyStr("show")>> >>))
      [] content = "{\"addresses\": [\"Building 17\", \"Building 999\"]}" ->
            Ok(PyDict(<< <<"addresses",
                           PyList(<<PyStr("Building 17"), PyStr("Building 999")>>)>> >>))
      [] content = "{\"addresses\": [\"Building 17\"], \"year\": 2025, \"filters\": null, \"action\": \"show\"}" ->
            Ok(PyDict(<< <<"addresses", PyList(<<PyStr("Building 17")>>)>>,
                         <<"year", PyInt(2025)>>, <<"filters", PyNone>>,
                         <<"action", PyStr("show")>> >>))
      [] content = "{\"addresses\": 5, \"filters\": {\"ledger_type\": \"zzz\"}, \"action\": \"show\"}" ->
            Ok(PyDict(<< <<"addresses", PyInt(5)>>,
                         <<"filters", PyDict(<< <<"ledger_type", PyStr("zzz")>> >>)>>,
                         <<"action", PyStr("show")>> >>))
      [] OTHER -> Raise("JSONDecodeError", "Expecting value: line 1 column 1 (char 0)")

(***************************************************************************)
(* graph_nodes.py: detect_intent.                                          *)
(***************************************************************************)

\* `if not text`, for a text that may be None
Falsy(text) == text = None \/ text = ""

keywords_data_explicit ==
    {"show all", "list all", "show rows", "list rows", "display rows", "get all",
     "all rows", "all data", "filter by", "where month", "where year", "for month",
     "for year", "records for"}

keywords_pnl == {"total profit", "total loss", "total pnl", "sum of", "aggregate"}

keywords_asset == {"building", "property", "tenant", "rent", "asset"}

valid_intents == {"price_comparison", "total_pnl", "asset_details", "general_qa", "data_query"}

\* the label of the try block: the reply trimmed and lower-cased, general_qa on failure
ModelLabel(reply) == IF reply.ok THEN Lower(Strip(reply.val)) ELSE "general_qa"

\* the failsafe with the asset keywords scanned before the others
KeywordOverride_AssetFirst(label, query) ==
    IF label # "general_qa" THEN label
    ELSE IF AnyIn(keywords_asset, query) THEN "asset_details"
    ELSE IF AnyIn(keywords_data_explicit, query) THEN "data_query"
    ELSE IF AnyIn(keywords_pnl, query) THEN "total_pnl"
    ELSE label

\* the failsafe applied whatever label the model gave
KeywordOverride_AnyLabel(label, query) ==
    IF AnyIn(keywords_data_explicit, query) THEN "data_query"
    ELSE IF AnyIn(keywords_pnl, query) THEN "total_pnl"
    ELSE IF AnyIn(keywords_asset, query) THEN "asset_details"
    ELSE label

\* the failsafe: the keyword scan over the lower-cased query, only for general_qa
KeywordOverride(label, query) ==
    IF label # "general_qa" THEN label
    ELSE IF AnyIn(keywords_data_explicit, query) THEN "data_query"
    ELSE IF AnyIn(keywords_pnl, query) THEN "total_pnl"
    ELSE IF AnyIn(keywords_asset, query) THEN "asset_details"
    ELSE label

\* detect_intent without the final validation
ValidateLabel_Unchecked(label) == label

\* the final validation against valid_intents
ValidateLabel(label) == IF label \notin valid_intents THEN "general_qa" ELSE label

\* the intent detect_intent writes, given the model's reply
DetectLabel(user_query, reply) ==
    ValidateLabel(KeywordOverride(ModelLabel(reply), Lower(user_query)))

(***************************************************************************)
(* graph_nodes.py: extract_params.                                         *)
(***************************************************************************)

\* where re.search(r"(202[0-9]-M\d{2})", q) matches first, 0 if nowhere
MonthTokenAt(q) ==
    LET hit(i) == /\ StartsAt(q, i, "202") /\ IsDigit(CharAt(q, i + 3))
                  /\ StartsAt(q, i + 4, "-M")
                  /\ IsDigit(CharAt(q, i + 6)) /\ IsDigit(CharAt(q, i + 7))
    IN  IF \E i \in 1..Len(q) : hit(i) THEN Min({i \in 1..Len(q) : hit(i)}) ELSE 0

\* where re.search(r"202[0-9]", q) matches first, 0 if nowhere
YearAt(q) ==
    LET hit(i) == StartsAt(q, i, "202") /\ IsDigit(CharAt(q, i + 3))
    IN  IF \E i \in 1..Len(q) : hit(i) THEN Min({i \in 1..Len(q) : hit(i)}) ELSE 0

\* a match of r"[Xx]word\s+(\d+)" at position i: <<start of the digits, end of the
\* match (exclusive)>>, or <<0, 0>>; initials holds the two cases of the first letter
NumberedAt(q, i, initials, rest) ==
    LET sp == i + 1 + Len(rest)
        dg == SpacesEnd(q, sp)
    IN  IF /\ InChars(CharAt(q, i), initials)
           /\ StartsAt(q, i + 1, rest)
           /\ dg > sp /\ DigitsEnd(q, dg) > dg
        THEN <<dg, DigitsEnd(q, dg)>> ELSE <<0, 0>>

\* the first match of the pattern at or after position from, 0 if none
NextNumbered(q, from, initials, rest) ==
    LET hit(i) == NumberedAt(q, i, initials, rest)[1] # 0
    IN  IF \E i \in from..Len(q) : hit(i) THEN Min({i \in from..Len(q) : hit(i)}) ELSE 0

\* re.findall(r"[Xx]word\s+(\d+)", q) from position from: the digit groups, in order
RECURSIVE FindAllNumbered(_, _, _, _)
FindAllNumbered(q, from, initials, rest) ==
    LET i == NextNumbered(q, from, initials, rest)
        m == NumberedAt(q, i, initials, rest)
    IN  IF i = 0 THEN <<>>
        ELSE <<SubSeq(q, m[1], m[2] - 1)>> \o FindAllNumbered(q, m[2], initials, rest)

\* the building pattern matching only a capital B
building_matches_CapitalOnly(q) == FindAllNumbered(q, 1, "B", "uilding")

\* re.findall(r"[Bb]uilding\s+(\d+)", q)
building_matches(q) == FindAllNumbered(q, 1, "Bb", "uilding")

\* [f"Building {num}" for num in matches], as a list
BuildingList(matches) ==
    PyList([i \in 1..Len(matches) |-> PyStr("Building " \o matches[i])])

\* re.search(r"[Tt]enant\s+(\d+)", q): the digit group as a one-item sequence, or <<>>
tenant_match(q) ==
    LET all == FindAllNumbered(q, 1, "Tt", "enant")
    IN  IF all = <<>> THEN <<>> ELSE <<all[1]>>

\* the action the fallback infers from the lower-cased query
FallbackAction(query_lower) ==
    IF AnyIn({"show", "list", "display", "all rows", "get"}, query_lower) THEN "show"
    ELSE IF AnyIn({"sum", "total", "aggregate"}, query_lower) THEN "aggregate"
    ELSE IF AnyIn({"count", "how many"}, query_lower) THEN "count"
    ELSE "show"

\* the except branch: the regex extraction over the raw query
FallbackExtract(q) ==
    LET mt == MonthTokenAt(q)
        yr == YearAt(q)
        token == SubSeq(q, mt, mt + 7)
        f1 == IF mt # 0 THEN <<  <<"month", PyStr(token)>>  >> ELSE <<>>
        bm == building_matches(q)
        f2 == IF bm # <<>> THEN DictSet(f1, "property_name", PyStr("Building " \o bm[1]))
              ELSE f1
        tm == tenant_match(q)
        f3 == IF tm # <<>> THEN DictSet(f2, "tenant_name", PyStr("Tenant " \o tm[1]))
              ELSE f2
    IN  [addresses |-> IF bm # <<>> THEN BuildingList(bm) ELSE PyList(<<>>),
         year |-> IF mt # 0 THEN PyInt(ParseInt(SubSeq(token, 1, 4)))
                  ELSE IF yr # 0 THEN PyInt(ParseInt(SubSeq(q, yr, yr + 3)))
                  ELSE PyNone,
         month |-> PyNone,
         filters |-> PyDict(f3),
         action |-> PyStr(FallbackAction(Lower(q)))]

\* the try block: the fields of the parsed object
ParsedExtract(parsed) ==
    [addresses |-> IF Truthy(DictGet(parsed.v, "addresses", PyNone))
                   THEN DictGet(parsed.v, "addresses", PyNone) ELSE PyList(<<>>),
     year |-> DictGet(parsed.v, "year", PyNone),
     month |-> DictGet(parsed.v, "month", PyNone),
     filters |-> DictGet(parsed.v, "filters", PyDict(<<>>)),
     action |-> DictGet(parsed.v, "action", PyStr("show"))]

\* resp.content.replace("'''json", "").replace("'''", "").strip()
StripFences(content) == Strip(Replace(Replace(content, "'''json", ""), "'''", ""))

\* the five fields after the try/except: json.JSONDecodeError and the AttributeError
\* of .get on a value that is no object both lead to the fallback
TryExtract(content, q) ==
    LET parsed == json_loads(StripFences(content))
    IN  IF parsed.ok /\ parsed.val.t = "dict" THEN ParsedExtract(parsed.val)
        ELSE FallbackExtract(q)

\* "Building" in prop_name
HoldsBuilding(prop_name) ==
    CASE prop_name.t = "str" -> Ok(Contains(prop_name.v, "Building"))
      [] prop_name.t = "list" ->
            Ok(\E i \in 1..Len(prop_name.v) : prop_name.v[i] = PyStr("Building"))
      [] prop_name.t = "dict" -> Ok(DictHas(prop_name.v, "Building"))
      [] OTHER -> Raise("TypeError",
                        "argument of type '" \o TypeName(prop_name) \o "' is not iterable")

\* the fix after the try/except: addresses from filters.property_name; it runs
\* outside the try block, so what it raises leaves the node
FixAddresses(p, q) ==
    IF Truthy(p.addresses) THEN Ok(p)
    ELSE IF p.filters.t # "dict"
    THEN Raise("AttributeError",
               "'" \o TypeName(p.filters) \o "' object has no attribute 'get'")
    ELSE LET prop_name == DictGet(p.filters.v, "property_name", PyNone)
         IN  IF ~Truthy(prop_name) THEN Ok(p)
             ELSE IF ~HoldsBuilding(prop_name).ok THEN HoldsBuilding(prop_name)
             ELSE IF ~HoldsBuilding(prop_name).val THEN Ok(p)
             ELSE IF building_matches(q) # <<>>
             THEN Ok([p EXCEPT !.addresses = BuildingList(building_matches(q))])
             ELSE Ok([p EXCEPT !.addresses = PyList(<<prop_name>>)])

\* the parameters of the general_qa shortcut
GeneralQaParams == [addresses |-> PyList(<<>>), year |-> PyNone, month |-> PyNone]

ExtractPromptError ==
    Raise("ValueError",
          "Extract system prompt not configured. Please configure it in Django Admin (Prompt model with type='extract').")

\* whether extract_params calls the model
ExtractCallsModel(st) ==
    st.intent # "general_qa" /\ ~Falsy(st.strategy.extract_system_prompt)

\* extract_params checking the prompt before the general_qa shortcut
extract_params_PromptFirst(st, reply) ==
    IF Falsy(st.strategy.extract_system_prompt) THEN ExtractPromptError
    ELSE IF st.intent = "general_qa" THEN Ok([st EXCEPT !.extracted_params = GeneralQaParams])
    ELSE IF ~reply.ok THEN reply
    ELSE LET fixed == FixAddresses(TryExtract(reply.val, st.user_query), st.user_query)
         IN  IF ~fixed.ok THEN fixed
             ELSE Ok([st EXCEPT !.extracted_params = fixed.val])

\* extract_params(state), given the model's reply: the state it returns, or what it raises
extract_params(st, reply) ==
    IF st.intent = "general_qa" THEN Ok([st EXCEPT !.extracted_params = GeneralQaParams])
    ELSE IF Falsy(st.strategy.extract_system_prompt) THEN ExtractPromptError
    ELSE IF ~reply.ok THEN reply
    ELSE LET fixed == FixAddresses(TryExtract(reply.val, st.user_query), st.user_query)
         IN  IF ~fixed.ok THEN fixed
             ELSE Ok([st EXCEPT !.extracted_params = fixed.val])

(***************************************************************************)
(* graph_nodes.py: retrieve_data.                                          *)
(***************************************************************************)

\* len(x)
PyLen(x) ==
    IF x.t \in {"list", "str", "dict"} THEN Ok(Len(x.v))
    ELSE Raise("TypeError", "object of type '" \o TypeName(x) \o "' has no len()")

\* x[i], for the index i >= 0
PyItem(x, i) ==
    CASE x.t = "list" -> IF i < Len(x.v) THEN Ok(x.v[i + 1])
                         ELSE Raise("IndexError", "list index out of range")
      [] x.t = "str" -> IF i < Len(x.v) THEN Ok(PyStr(CharAt(x.v, i + 1)))
                        ELSE Raise("IndexError", "string index out of range")
      [] x.t = "dict" -> Raise("KeyError", ToString(i))
      [] OTHER -> Raise("TypeError", "'" \o TypeName(x) \o "' object is not subscriptable")

\* key in x, for a text key
PyHasKey(x, key) ==
    CASE x.t = "dict" -> Ok(DictHas(x.v, key))
      [] x.t = "str" -> Ok(Contains(x.v, key))
      [] x.t = "list" -> Ok(\E i \in 1..Len(x.v) : x.v[i] = PyStr(key))
      [] OTHER -> Raise("TypeError",
                        "argument of type '" \o TypeName(x) \o "' is not iterable")

\* x[key] = value, for a text key: the value x then is
PySetKey(x, key, value) ==
    CASE x.t = "dict" -> Ok(PyDict(DictSet(x.v, key, value)))
      [] x.t = "list" -> Raise("TypeError", "list indices must be integers or slices, not str")
      [] OTHER -> Raise("TypeError", "'" \o TypeName(x)
                                     \o "' object does not support item assignment")

\* the row limit retrieve_data passes to query_data_flexible
QueryLimit == 200

\* params.get("addresses") or []
AddressesOf(params) ==
    IF "addresses" \in DOMAIN params /\ Truthy(params.addresses) THEN params.addresses
    ELSE PyList(<<>>)

\* params.get(key, default)
ParamOf(params, key, default) == IF key \in DOMAIN params THEN params[key] ELSE default

\* the first statement of the data_query branch that adds to filters:
\* if year is not None and "year" not in filters: filters["year"] = year
AddYear(filters, year) ==
    IF year.t = "none" THEN Ok(filters)
    ELSE IF ~PyHasKey(filters, "year").ok THEN PyHasKey(filters, "year")
    ELSE IF PyHasKey(filters, "year").val THEN Ok(filters)
    ELSE PySetKey(filters, "year", year)

\* the second: if month is not None and "month" not in filters: an int month becomes
\* f"{year}-M{month:02d}", any other month is stored as it is
AddMonth(filters, year, month) ==
    IF month.t = "none" THEN Ok(filters)
    ELSE IF ~PyHasKey(filters, "month").ok THEN PyHasKey(filters, "month")
    ELSE IF PyHasKey(filters, "month").val THEN Ok(filters)
    ELSE PySetKey(filters, "month",
            IF month.t = "int" THEN PyStr(PyToStr(year) \o "-M" \o Pad2(month.v))
            ELSE month)

\* the filters object after the data_query branch has added to it, whether or not
\* the branch then raised: it is the dict extracted_params holds, changed in place
FiltersAfter(filters, year, month) ==
    IF ~AddYear(filters, year).ok THEN filters
    ELSE IF ~AddMonth(AddYear(filters, year).val, year, month).ok
    THEN AddYear(filters, year).val
    ELSE AddMonth(AddYear(filters, year).val, year, month).val

\* the outcome of the try block: Ok of an early return with an error, Ok of the
\* result dict, or the exception raised; loads tells whether get_assets_df() ran
EarlyError(text, loads) == [ok |-> TRUE, error |-> text, loads |-> loads]

Retrieved(key, payload, loads) ==
    [ok |-> TRUE, error |-> None, result |-> (key :> payload), loads |-> loads]

Raised(e, loads) == [ok |-> FALSE, exc |-> e.exc, msg |-> e.msg, loads |-> loads]

TryPriceComparison(addresses, got) ==
    IF ~PyLen(addresses).ok THEN Raised(PyLen(addresses), FALSE)
    ELSE IF PyLen(addresses).val < 2
    THEN EarlyError("To compare, I need two property names.", FALSE)
    ELSE IF ~PyItem(addresses, 0).ok THEN Raised(PyItem(addresses, 0), FALSE)
    ELSE IF ~PyItem(addresses, 1).ok THEN Raised(PyItem(addresses, 1), FALSE)
    ELSE LET data == compare_assets_by_price(got, PyItem(addresses, 0).val,
                                             PyItem(addresses, 1).val)
         IN  IF ~data.ok THEN Raised(data, TRUE)
             ELSE Retrieved("price_comparison", data.val, TRUE)

TryAssetDetails(addresses, got) ==
    IF ~Truthy(addresses) THEN EarlyError("I couldn't identify the property name.", FALSE)
    ELSE IF ~PyItem(addresses, 0).ok THEN Raised(PyItem(addresses, 0), FALSE)
    ELSE LET record == get_single_asset(got, PyItem(addresses, 0).val)
         IN  IF ~record.ok THEN Raised(record, TRUE)
             ELSE IF record.val = PyNone
             THEN EarlyError("Property '" \o PyToStr(PyItem(addresses, 0).val)
                             \o "' not found.", TRUE)
             ELSE Retrieved("asset_details", record.val, TRUE)

TryTotalPnl(year, month, got) ==
    LET total == compute_total_pnl(got, year, month)
    IN  IF ~total.ok THEN Raised(total, TRUE)
        ELSE Retrieved("total_pnl", [year |-> year, month |-> month, value |-> total.val],
                       TRUE)

TryDataQuery(filters, action, year, month, got) ==
    IF ~AddYear(filters, year).ok THEN Raised(AddYear(filters, year), FALSE)
    ELSE IF ~AddMonth(AddYear(filters, year).val, year, month).ok
    THEN Raised(AddMonth(AddYear(filters, year).val, year, month), FALSE)
    ELSE LET query_result == query_data_flexible(got, FiltersAfter(filters, year, month),
                                                 action, QueryLimit)
         IN  IF ~query_result.ok THEN Raised(query_result, TRUE)
             ELSE Retrieved("data_query", query_result.val, TRUE)

\* the try block of retrieve_data
TryRetrieve(st, got) ==
    LET params == st.extracted_params
        addresses == AddressesOf(params)
        year == ParamOf(params, "year", PyNone)
        month == ParamOf(params, "month", PyNone)
    IN  CASE st.intent = "price_comparison" -> TryPriceComparison(addresses, got)
          [] st.intent = "asset_details" -> TryAssetDetails(addresses, got)
          [] st.intent = "total_pnl" -> TryTotalPnl(year, month, got)
          [] st.intent = "data_query" ->
                TryDataQuery(ParamOf(params, "filters", PyDict(<<>>)),
                             ParamOf(params, "action", PyStr("show")), year, month, got)
          [] st.intent = "general_qa" -> Retrieved("general_qa", <<>>, FALSE)
          [] OTHER -> EarlyError("Unknown intent: " \o st.intent, FALSE)

\* the classes the model's operations raise; all derive from Exception
ExceptionClasses ==
    {"Exception", "ValueError", "TypeError", "AttributeError", "KeyError", "IndexError",
     "FileNotFoundError", "DatasetConfigError", "JSONDecodeError"}

\* the except clauses without the last one, except Exception
CaughtAs_NoCatchAll(e) ==
    IF e.exc = "DatasetConfigError" THEN "Data Config Error: " \o e.msg
    ELSE IF e.exc = "ValueError" THEN e.msg
    ELSE None

\* the except clauses of retrieve_data, in order: the error text written for an
\* exception, or None for one no clause catches
CaughtAs(e) ==
    IF e.exc = "DatasetConfigError" THEN "Data Config Error: " \o e.msg
    ELSE IF e.exc = "ValueError" THEN e.msg
    ELSE IF e.exc \in ExceptionClasses THEN "System Error: " \o e.msg
    ELSE None

\* extracted_params after the node: the data_query branch adds year and month to
\* the filters dict it got from extracted_params
ParamsAfterRetrieve(st) ==
    IF st.intent = "data_query" /\ "filters" \in DOMAIN st.extracted_params
    THEN [st.extracted_params EXCEPT
            !.filters = FiltersAfter(@, ParamOf(st.extracted_params, "year", PyNone),
                                     ParamOf(st.extracted_params, "month", PyNone))]
    ELSE st.extracted_params

\* retrieve_data(state), given the outcome of get_assets_df(): the state it returns,
\* or the exception no except clause caught
retrieve_data(st, got) ==
    LET out == TryRetrieve(st, got)
        st1 == [st EXCEPT !.extracted_params = ParamsAfterRetrieve(st)]
    IN  IF ~out.ok
        THEN IF CaughtAs(out) = None THEN Raise(out.exc, out.msg)
             ELSE Ok([st1 EXCEPT !.error = CaughtAs(out)])
        ELSE IF out.error # None THEN Ok([st1 EXCEPT !.error = out.error])
        ELSE Ok([st1 EXCEPT !.retrieved_data = out.result])

\* whether retrieve_data calls get_assets_df()
RetrieveLoads(st) == TryRetrieve(st, Raise("Exception", "")).loads

\* route_after_retrieval(state)
route_after_retrieval(st) ==
    IF ~Falsy(st.error) THEN "end_with_error" ELSE "compute_answer"

\* end_with_error wrapping the error text in a sentence
end_with_error_Wrapped(st) ==
    IF ~Falsy(st.error) /\ Falsy(st.answer)
    THEN [st EXCEPT !.answer = "Sorry, I couldn't complete your request: " \o st.error]
    ELSE st

\* end_with_error clearing the intent of a run that failed
end_with_error_ClearsIntent(st) ==
    IF ~Falsy(st.error) /\ Falsy(st.answer)
    THEN [st EXCEPT !.answer = st.error, !.intent = None]
    ELSE st

\* end_with_error(state)
end_with_error(st) ==
    IF ~Falsy(st.error) /\ Falsy(st.answer) THEN [st EXCEPT !.answer = st.error] ELSE st

(***************************************************************************)
(* graph_nodes.py: compute_answer.  The pictographs of the source's        *)
(* section titles are left out of the texts.                               *)
(***************************************************************************)

MonthNames ==
    <<"January", "February", "March", "April", "May", "June", "July", "August",
      "September", "October", "November", "December">>

\* calendar.month_name[mn]: a list of 13 names, the first one empty
month_name(mn) ==
    IF mn.t # "int"
    THEN Raise("TypeError", "list indices must be integers or slices, not " \o TypeName(mn))
    ELSE IF mn.v \in 1..12 THEN Ok(MonthNames[mn.v])
    ELSE IF mn.v \in (-12)..(-1) THEN Ok(MonthNames[mn.v + 13])
    ELSE IF mn.v \in {0, -13} THEN Ok("")
    ELSE Raise("IndexError", "list index out of range")

\* the comparison answer naming the first property whatever the difference
AnswerPriceComparison_FirstNamed(comp) ==
    LET a1_name == PyToStr(comp.asset_1.property_name)
        a2_name == PyToStr(comp.asset_2.property_name)
        diff == comp.difference
    IN  "**Comparison Result:**\n\n"
        \o "* **" \o a1_name \o "**: " \o Money(comp.asset_1.value) \o " profit\n"
        \o "* **" \o a2_name \o "**: " \o Money(comp.asset_2.value) \o " profit\n\n"
        \o "The property **" \o a1_name \o "** generated " \o Money(Abs(diff))
        \o " more profit."

AnswerPriceComparison(comp) ==
    LET a1_name == PyToStr(comp.asset_1.property_name)
        a2_name == PyToStr(comp.asset_2.property_name)
        diff == comp.difference
        better == IF diff > 0 THEN a1_name ELSE a2_name
    IN  "**Comparison Result:**\n\n"
        \o "* **" \o a1_name \o "**: " \o Money(comp.asset_1.value) \o " profit\n"
        \o "* **" \o a2_name \o "**: " \o Money(comp.asset_2.value) \o " profit\n\n"
        \o "The property **" \o better \o "** generated " \o Money(Abs(diff))
        \o " more profit."

AnswerAssetDetails(record) ==
    "Here is the financial summary for the requested property:\n\n"
    \o summarize_asset_record(record)

\* the answer for total_pnl, or the exception of the month name's lookup
AnswerTotalPnl(pnl) ==
    LET both == Truthy(pnl.year) /\ Truthy(pnl.month)
        time_frame ==
            IF both THEN "for " \o month_name(pnl.month).val \o " " \o PyToStr(pnl.year)
            ELSE IF Truthy(pnl.year) THEN "for the full year " \o PyToStr(pnl.year)
            ELSE "across all recorded dates"
    IN  IF both /\ ~month_name(pnl.month).ok THEN month_name(pnl.month)
        ELSE Ok("The total recorded **Profit/Loss** " \o time_frame \o " is: **"
                \o Money(pnl.value) \o "**")

important_cols ==
    <<"property_name", "tenant_name", "ledger_type", "ledger_description", "month", "year",
      "profit", "entity_name", "ledger_category">>

\* the columns of the table: the important ones the rows have, then the others (the
\* source takes those in the iteration order of a set; here in REQUIRED_COLUMNS order)
display_cols(all_keys) ==
    SelectSeq(important_cols, LAMBDA c : c \in all_keys)
    \o SelectSeq(REQUIRED_COLUMNS,
                 LAMBDA c : c \in all_keys
                            /\ \A i \in 1..Len(important_cols) : important_cols[i] # c)

\* one cell of the table: profit with two decimals, a dash for a missing value
TableCell(c, cell) ==
    IF cell.t = "nan" \/ cell.t = "none" THEN "-"
    ELSE IF c = "profit" THEN Money(cell.v)
    ELSE PyToStr(cell)

\* the lines of the "Data Rows" section
RowsSection(query_result) ==
    LET rows == query_result.rows
        cols == display_cols(IF rows = <<>> THEN {} ELSE DOMAIN rows[1])
        line(r) == "| " \o Join(" | ", [i \in 1..Len(cols) |->
                                          TableCell(cols[i], r[cols[i]])])
                   \o " |"
    IN  << "**Data Rows** (showing " \o ToString(query_result.showing) \o " of "
           \o ToString(query_result.total_rows) \o "):\n" >>
        \o (IF rows # <<>>
            THEN << "| " \o Join(" | ", cols) \o " |",
                    "| " \o Join(" | ", [i \in 1..Len(cols) |-> "---"]) \o " |" >>
                 \o [i \in 1..Len(rows) |-> line(rows[i])]
            ELSE <<>>)
        \o (IF query_result.total_rows > query_result.showing
            THEN << "\n*...and " \o ToString(query_result.total_rows - query_result.showing)
                    \o " more rows*" >>
            ELSE <<>>)

\* "- key: value" lines of pairs sorted by value, descending, the first `top` of them
Breakdown(pairs, top, Show(_)) ==
    LET sorted == ByValueDesc(pairs)
        n == IF Len(sorted) < top THEN Len(sorted) ELSE top
    IN  [i \in 1..n |-> "- " \o PyToStr(sorted[i][1]) \o ": " \o Show(sorted[i][2])]

\* the number of properties the "By Property" breakdown lists
TopProperties == 10

AggregationsSection(aggs) ==
    << "\n**Aggregations:**" >>
    \o (IF aggs.by_ledger_type # <<>>
        THEN << "\n**By Ledger Type:**" >>
             \o Breakdown(aggs.by_ledger_type, Len(aggs.by_ledger_type), Money)
        ELSE <<>>)
    \o (IF aggs.by_property # <<>>
        THEN << "\n**By Property:**" >> \o Breakdown(aggs.by_property, TopProperties, Money)
        ELSE <<>>)

CountsSection(counts) ==
    << "\n**Counts:**", "- Total records: " \o Grouped(counts.total) >>
    \o (IF counts.by_ledger_type # <<>>
        THEN << "\n**By Ledger Type:**" >>
             \o Breakdown(counts.by_ledger_type, Len(counts.by_ledger_type), Grouped)
        ELSE <<>>)

\* ", ".join(f"{k}={v}" for k, v in filters.items())
FilterDesc(pairs) ==
    Join(", ", [i \in 1..Len(pairs) |-> pairs[i][1] \o "=" \o PyToStr(pairs[i][2])])

AnswerDataQuery(query_result) ==
    IF query_result.status = "no_data" THEN query_result.message
    ELSE Join("\n",
            << IF Truthy(query_result.filters)
               THEN "**Query Results** (Filters: " \o FilterDesc(query_result.filters.v) \o ")\n"
               ELSE "**Query Results**\n",
               "**Summary:**",
               "- Total matching records: **" \o Grouped(query_result.count) \o "**",
               "- Total Profit/Loss: **" \o Money(query_result.total_profit) \o "**\n" >>
            \o (IF "rows" \in DOMAIN query_result THEN RowsSection(query_result) ELSE <<>>)
            \o (IF "aggregations" \in DOMAIN query_result
                THEN AggregationsSection(query_result.aggregations) ELSE <<>>)
            \o (IF "counts" \in DOMAIN query_result
                THEN CountsSection(query_result.counts) ELSE <<>>))

GeneralQaPromptError ==
    Raise("ValueError",
          "General Q&A system prompt not configured. Please configure it in Django Admin (Prompt model with type='general_qa').")

\* whether compute_answer calls the model
AnswerCallsModel(st) ==
    /\ Falsy(st.error) /\ st.intent = "general_qa"
    /\ ~Falsy(st.strategy.general_qa_system_prompt)

\* compute_answer(state), given the model's reply: the state it returns, or what it raises
compute_answer(st, reply) ==
    LET data == st.retrieved_data
    IN  IF ~Falsy(st.error) THEN Ok(st)
        ELSE CASE st.intent = "price_comparison" ->
                    IF "price_comparison" \notin DOMAIN data THEN Raise("KeyError", "'asset_1'")
                    ELSE Ok([st EXCEPT !.answer = AnswerPriceComparison(data.price_comparison)])
               [] st.intent = "asset_details" ->
                    IF "asset_details" \notin DOMAIN data
                    THEN Raise("TypeError",
                               "unsupported format string passed to NoneType.__format__")
                    ELSE Ok([st EXCEPT !.answer = AnswerAssetDetails(data.asset_details)])
               [] st.intent = "total_pnl" ->
                    LET pnl == IF "total_pnl" \in DOMAIN data THEN data.total_pnl
                               ELSE [year |-> PyNone, month |-> PyNone, value |-> 0]
                    IN  IF ~AnswerTotalPnl(pnl).ok THEN AnswerTotalPnl(pnl)
                        ELSE Ok([st EXCEPT !.answer = AnswerTotalPnl(pnl).val])
               [] st.intent = "data_query" ->
                    LET query_result == IF "data_query" \in DOMAIN data THEN data.data_query
                                        ELSE [status |-> "success", filters |-> PyDict(<<>>),
                                              count |-> 0, total_profit |-> 0]
                    IN  Ok([st EXCEPT !.answer = AnswerDataQuery(query_result)])
               [] st.intent = "general_qa" ->
                    IF Falsy(st.strategy.general_qa_system_prompt) THEN GeneralQaPromptError
                    ELSE IF ~reply.ok THEN reply
                    ELSE Ok([st EXCEPT !.answer = reply.val])
               [] OTHER -> Ok(st)

(***************************************************************************)
(* graph_builder.py: the graph; orchestrator.py: run_agent.                *)
(***************************************************************************)

START == "detect_intent"

END == "__end__"

\* the graph with both terminal nodes chained: compute_answer leads to end_with_error
Edge_BothTerminals(node, st) ==
    CASE node = "detect_intent" -> "extract_params"
      [] node = "extract_params" -> "retrieve_data"
      [] node = "retrieve_data" -> route_after_retrieval(st)
      [] node = "compute_answer" -> "end_with_error"
      [] node = "end_with_error" -> END

\* the graph with detect_intent wired straight to retrieve_data
Edge_SkipExtract(node, st) ==
    CASE node = "detect_intent" -> "retrieve_data"
      [] node = "extract_params" -> "retrieve_data"
      [] node = "retrieve_data" -> route_after_retrieval(st)
      [] node = "compute_answer" -> END
      [] node = "end_with_error" -> END

\* the graph without the edge from compute_answer to END
Edge_AnswerUnwired(node, st) ==
    CASE node = "detect_intent" -> "extract_params"
      [] node = "extract_params" -> "retrieve_data"
      [] node = "retrieve_data" -> route_after_retrieval(st)
      [] node = "compute_answer" -> "unwired"
      [] node = "end_with_error" -> END

\* the node after `node`: the edges and the conditional edge of build_graph
Edge(node, st) ==
    CASE node = "detect_intent" -> "extract_params"
      [] node = "extract_params" -> "retrieve_data"
      [] node = "retrieve_data" -> route_after_retrieval(st)
      [] node = "compute_answer" -> END
      [] node = "end_with_error" -> END

\* the answer run_agent returns for the final state
ReturnedAnswer(result) ==
    LET answer == IF Falsy(result.answer) THEN "" ELSE result.answer
    IN  IF answer = "" /\ ~Falsy(result.error)
        THEN "Sorry, I couldn't complete your request: " \o result.error
        ELSE answer

debug_state(result) ==
    [intent |-> result.intent, extracted_params |-> result.extracted_params,
     retrieved_data |-> result.retrieved_data, error |-> result.error]

(***************************************************************************)
(* The run: run_agent builds the initial state, graph_app.invoke runs the  *)
(* nodes one after the other, run_agent returns the answer.                *)
(***************************************************************************)

\* the words the model's queries are made of
Fragments ==
    <<"Show all rows", "total profit", "Building 17", "building 22 2025-M01", "Tenant 3 2024">>

\* the most fragments a query holds
MaxFragments == 2

\* the lists of at most n different fragments
RECURSIVE FragmentLists(_)
FragmentLists(n) ==
    IF n = 0 THEN {<<>>}
    ELSE FragmentLists(n - 1)
         \cup {Append(q[1], q[2]) :
                  q \in {p \in FragmentLists(n - 1) \X (1..Len(Fragments)) :
                            \A i \in 1..Len(p[1]) : p[1][i] # p[2]}}

\* the texts a caller passes as user_query, with blanks around them
RawQueries ==
    {" " \o Join(" ", [i \in 1..Len(q) |-> Fragments[q[i]]]) \o "\n" :
        q \in FragmentLists(MaxFragments)}

\* the prompts a strategy configures: each one a text or None
Prompts(intent, extract, general_qa) ==
    [intent_system_prompt |-> intent, extract_system_prompt |-> extract,
     general_qa_system_prompt |-> general_qa]

Strategies ==
    {Prompts("classify", "extract", "answer"), Prompts(None, "extract", "answer"),
     Prompts("classify", None, "answer"), Prompts("classify", "extract", None),
     Prompts(None, None, None)}

\* initial_state of run_agent
InitialState(user_query, strategy_config) ==
    [user_query |-> Strip(user_query), intent |-> None, extracted_params |-> <<>>,
     retrieved_data |-> <<>>, answer |-> None, error |-> None, strategy |-> strategy_config]

NotRaised == [exc |-> None, msg |-> None]

\* the reply handed to a node that does not call the model
NoReply == Raise("Unused", "")

\* no direct call of the query engine is made in a run of the agent
\* no upload is under way: persist_uploaded_dataset was not called
NoUpload == [pc |-> "none", source |-> NoFile, old |-> NoFile]

NoEngineCall == [year |-> None, month |-> None, pnl |-> None, query |-> None]

Init ==
    /\ \E q \in RawQueries, sc \in Strategies : state = InitialState(q, sc)
    /\ pc = START
    /\ executed = <<>>
    /\ llm_calls = <<>>
    /\ raised = NotRaised
    /\ returned = <<>>
    /\ file \in Files
    /\ cache = EmptyCache
    /\ engine = NoEngineCall
    /\ upload = NoUpload
    /\ readers = <<>>

IntentPromptError ==
    Raise("ValueError",
          "Intent system prompt not configured. Please configure it in Django Admin (Prompt model with type='intent').")

\* detect_intent(state), given the model's reply: the state it returns, or what it raises
detect_intent(st, reply) ==
    IF Falsy(st.strategy.intent_system_prompt) THEN IntentPromptError
    ELSE Ok([st EXCEPT !.intent = DetectLabel(st.user_query, reply)])

\* whether detect_intent calls the model
IntentCallsModel(st) == ~Falsy(st.strategy.intent_system_prompt)

\* a node ends: the graph moves along its edge, or the exception leaves invoke
NodeEnds(node, out) ==
    IF out.ok
    THEN /\ state' = out.val
         /\ pc' = Edge(node, out.val)
         /\ raised' = raised
    ELSE /\ state' = state
         /\ pc' = "raised"
         /\ raised' = [exc |-> out.exc, msg |-> out.msg]

\* graph_app.invoke running one node (orchestrator.py): a node that may call the
\* model runs with one of the model's replies
NodeRuns(node, calls, replies, Node(_, _)) ==
    /\ pc = node
    /\ executed' = Append(executed, node)
    /\ \E reply \in (IF calls THEN Invoke(replies) ELSE {NoReply}) :
          /\ llm_calls' = IF calls THEN Append(llm_calls, <<node, reply>>) ELSE llm_calls
          /\ NodeEnds(node, Node(state, reply))

DetectIntent ==
    /\ NodeRuns("detect_intent", IntentCallsModel(state), IntentReplies, detect_intent)
    /\ UNCHANGED <<returned, file, cache, engine, upload, readers>>

ExtractParams ==
    /\ NodeRuns("extract_params", ExtractCallsModel(state), ExtractReplies, extract_params)
    /\ UNCHANGED <<returned, file, cache, engine, upload, readers>>

RetrieveData ==
    /\ pc = "retrieve_data"
    /\ executed' = Append(executed, "retrieve_data")
    /\ NodeEnds("retrieve_data", retrieve_data(state, get_assets_df(file, cache)))
    /\ cache' = IF RetrieveLoads(state) THEN CacheAfter(file, cache) ELSE cache
    /\ UNCHANGED <<llm_calls, returned, file, engine, upload, readers>>

ComputeAnswer ==
    /\ NodeRuns("compute_answer", AnswerCallsModel(state), AnswerReplies, compute_answer)
    /\ UNCHANGED <<returned, file, cache, engine, upload, readers>>

EndWithError ==
    /\ pc = "end_with_error"
    /\ executed' = Append(executed, "end_with_error")
    /\ NodeEnds("end_with_error", Ok(end_with_error(state)))
    /\ UNCHANGED <<llm_calls, returned, file, cache, engine, upload, readers>>

\* run_agent after graph_app.invoke returned
Return ==
    /\ pc = END
    /\ returned' = <<ReturnedAnswer(state), debug_state(state)>>
    /\ pc' = "done"
    /\ UNCHANGED <<state, executed, llm_calls, raised, file, cache, engine, upload, readers>>

Next ==
    \/ DetectIntent
    \/ ExtractParams
    \/ RetrieveData
    \/ ComputeAnswer
    \/ EndWithError
    \/ Return

Spec == Init /\ [][Next]_vars

(***************************************************************************)
(* The runs over queries that carry dates: run_agent on texts with a       *)
(* "<year>-M<mm>" token, a year, both or neither, over the valid dataset,  *)
(* so that the regex fallback of extract_params (graph_nodes.py:125-166)   *)
(* meets each of them.                                                     *)
(***************************************************************************)

\* the texts a caller passes as user_query
DateQueries ==
    {"profit 2025-M01", "profit 2019-M05", "2025-M01 against 2024", "2024 then 2025-M02",
     "all of 2024", "rows of 2025-M1", "no dates here"}

InitDates ==
    /\ \E q \in DateQueries :
          state = InitialState(q, Prompts("classify", "extract", "answer"))
    /\ pc = START
    /\ executed = <<>>
    /\ llm_calls = <<>>
    /\ raised = NotRaised
    /\ returned = <<>>
    /\ file = GoodFile
    /\ cache = EmptyCache
    /\ engine = NoEngineCall
    /\ upload = NoUpload
    /\ readers = <<>>

SpecDates == InitDates /\ [][Next]_vars

(***************************************************************************)
(* The query engine called directly: compute_total_pnl(year, month) and    *)
(* query_data_flexible({"month": "<year>-M<mm>"}, action) over one dataset. *)
(***************************************************************************)

\* the datasets of the direct calls
EngineFiles == Files \cup {StrayFile}

EngineYears == {PyNone, PyInt(2024), PyInt(2025)}

EngineMonths == {PyNone, PyInt(1), PyInt(2), PyInt(12)}

EngineActions == {PyStr("show"), PyStr("aggregate"), PyStr("count")}

\* the default of query_data_flexible's limit parameter
DefaultLimit == 100

\* the result of a call that was not made
NotCalled == Raise("NotCalled", "")

\* the month as the dataset writes it: f"{year}-M{month:02d}"
MonthLiteral(year, month) == PyToStr(year) \o "-M" \o FormatMonth(month).val

InitEngine ==
    /\ state = InitialState("", Prompts("classify", "extract", "answer"))
    /\ pc = "engine"
    /\ executed = <<>>
    /\ llm_calls = <<>>
    /\ raised = NotRaised
    /\ returned = <<>>
    /\ file \in EngineFiles
    /\ cache = EmptyCache
    /\ \E y \in EngineYears, m \in EngineMonths :
          engine = [year |-> y, month |-> m, pnl |-> NotCalled, query |-> NotCalled]
    /\ upload = NoUpload
    /\ readers = <<>>

\* compute_total_pnl(year, month)
TotalPnl ==
    /\ engine.pnl = NotCalled
    /\ engine' = [engine EXCEPT
                    !.pnl = compute_total_pnl(get_assets_df(file, cache), engine.year,
                                              engine.month)]
    /\ cache' = CacheAfter(file, cache)
    /\ UNCHANGED <<state, pc, executed, llm_calls, raised, returned, file, upload,
                   readers>>

\* query_data_flexible({"month": "<year>-M<mm>"}, action)
QueryMonth ==
    /\ engine.query = NotCalled
    /\ engine.year # PyNone
    /\ engine.month # PyNone
    /\ \E action \in EngineActions :
          engine' = [engine EXCEPT
                       !.query = query_data_flexible(
                                    get_assets_df(file, cache),
                                    PyDict(<< <<"month",
                                                PyStr(MonthLiteral(engine.year,
                                                                   engine.month))>> >>),
                                    action, DefaultLimit)]
    /\ cache' = CacheAfter(file, cache)
    /\ UNCHANGED <<state, pc, executed, llm_calls, raised, returned, file, upload,
                   readers>>

NextEngine ==
    \/ TotalPnl
    \/ QueryMonth

SpecEngine == InitEngine /\ [][NextEngine]_vars

(***************************************************************************)
(* Two invocations of run_agent in one process.  Each call builds its own  *)
(* initial_state (orchestrator.py:44-53) and hands it to the one compiled  *)
(* graph, graph_builder.app; the runs share the dataset file and the       *)
(* lru_cache of get_assets_df (data_loader.py:43-44).  The two runs are    *)
(* held in readers[1] and readers[2]; a run's call of get_assets_df is two *)
(* steps, the lookup with the load and the rest of the node with the       *)
(* store, so that both runs can miss the cache and load.                   *)
(***************************************************************************)

RunIds == {1, 2}

\* the texts the two callers pass as user_query
FirstQuery == "total profit Building 17"

OtherQuery == "Show all rows building 22 2025-M01"

\* the replies of the model to the second run
OtherIntentReplies == {"data_query", " Total_PNL\n", "price_comparison"}

OtherExtractReplies ==
    {"not json at all",
     "'''json\n{\"addresses\": [\"Building 17\", \"Building 22\"], \"year\": null, \"month\": null, \"filters\": {}, \"action\": \"show\"}\n'''"}

\* an invocation before its first node; lookup and store record what the cache did
\* for the run's get_assets_df() call
NewRun(user_query, strategy_config) ==
    [state |-> InitialState(user_query, strategy_config), pc |-> START, executed |-> <<>>,
     llm_calls |-> <<>>, raised |-> NotRaised, returned |-> <<>>, got |-> NoReply,
     lookup |-> "none", store |-> "none"]

InitRuns ==
    /\ state = InitialState("", Prompts("classify", "extract", "answer"))
    /\ pc = "runs"
    /\ executed = <<>>
    /\ llm_calls = <<>>
    /\ raised = NotRaised
    /\ returned = <<>>
    /\ file \in {GoodFile, BadFile}
    /\ cache = EmptyCache
    /\ engine = NoEngineCall
    /\ upload = NoUpload
    /\ readers = <<NewRun(FirstQuery, Prompts("classify", "extract", "answer")),
                   NewRun(OtherQuery, Prompts("classify", "extract", "answer"))>>

\* a node of a run ends: NodeEnds on the run's own state
RunEnds(run, node, out) ==
    IF out.ok
    THEN [run EXCEPT !.state = out.val, !.pc = Edge(node, out.val),
                     !.executed = Append(@, node)]
    ELSE [run EXCEPT !.pc = "raised", !.raised = [exc |-> out.exc, msg |-> out.msg],
                     !.executed = Append(@, node)]

\* graph_app.invoke running one node of run r: a node that may call the model runs
\* with one of the model's replies
RunNode(r, node, calls, replies, Node(_, _)) ==
    /\ readers[r].pc = node
    /\ \E reply \in (IF calls THEN Invoke(replies) ELSE {NoReply}) :
          readers' = [readers EXCEPT
                        ![r] = RunEnds([@ EXCEPT
                                          !.llm_calls = IF calls
                                                        THEN Append(@, <<node, reply>>)
                                                        ELSE @],
                                       node, Node(readers[r].state, reply))]

RunDetectIntent ==
    \E r \in RunIds :
       /\ RunNode(r, "detect_intent", IntentCallsModel(readers[r].state),
                  IF r = 1 THEN IntentReplies ELSE OtherIntentReplies, detect_intent)
       /\ UNCHANGED <<state, pc, executed, llm_calls, raised, returned, file, cache,
                      engine, upload>>

RunExtractParams ==
    \E r \in RunIds :
       /\ RunNode(r, "extract_params", ExtractCallsModel(readers[r].state),
                  IF r = 1 THEN ExtractReplies ELSE OtherExtractReplies, extract_params)
       /\ UNCHANGED <<state, pc, executed, llm_calls, raised, returned, file, cache,
                      engine, upload>>

\* retrieve_data of a run up to the end of its get_assets_df() call, when its branch
\* makes one: the cached DataFrame, or on a miss the DataFrame it reads from the
\* file, not yet stored
RunLookup ==
    \E r \in RunIds :
       /\ readers[r].pc = "retrieve_data"
       /\ LET loads == RetrieveLoads(readers[r].state)
          IN  readers' = [readers EXCEPT
                            ![r].pc = "retrieving",
                            ![r].got = IF loads THEN get_assets_df(file, cache) ELSE @,
                            ![r].lookup = IF ~loads THEN @
                                          ELSE IF cache.loaded THEN "hit" ELSE "miss"]
       /\ UNCHANGED <<state, pc, executed, llm_calls, raised, returned, file, cache,
                      engine, upload>>

\* the cache holding the DataFrame of another call, less the first row
CacheStored_DropsRow(got, c) ==
    IF c.loaded THEN [c EXCEPT !.df.rows = IF @ = <<>> THEN @ ELSE Tail(@)]
    ELSE IF ~got.ok THEN c
    ELSE [loaded |-> TRUE, df |-> got.val]

\* the cache after the wrapper stored the DataFrame of a call that missed: the entry
\* another call stored meanwhile is kept
CacheStored(got, c) ==
    IF c.loaded \/ ~got.ok THEN c ELSE [loaded |-> TRUE, df |-> got.val]

\* the rest of retrieve_data of a run: the wrapper stores the DataFrame of a call
\* that missed, the branch computes on the DataFrame it got
RunRetrieveData ==
    \E r \in RunIds :
       /\ readers[r].pc = "retrieving"
       /\ LET stored == IF readers[r].lookup = "none" THEN cache
                        ELSE CacheStored(readers[r].got, cache)
          IN  /\ readers' = [readers EXCEPT
                               ![r] = RunEnds([@ EXCEPT
                                                 !.store = IF readers[r].lookup = "none"
                                                           THEN @
                                                           ELSE IF stored = cache
                                                           THEN "kept" ELSE "stored"],
                                              "retrieve_data",
                                              retrieve_data(readers[r].state,
                                                            readers[r].got))]
              /\ cache' = stored
       /\ UNCHANGED <<state, pc, executed, llm_calls, raised, returned, file, engine,
                      upload>>

RunComputeAnswer ==
    \E r \in RunIds :
       /\ RunNode(r, "compute_answer", AnswerCallsModel(readers[r].state), AnswerReplies,
                  compute_answer)
       /\ UNCHANGED <<state, pc, executed, llm_calls, raised, returned, file, cache,
                      engine, upload>>

RunEndWithError ==
    \E r \in RunIds :
       /\ readers[r].pc = "end_with_error"
       /\ readers' = [readers EXCEPT
                        ![r] = RunEnds(@, "end_with_error",
                                       Ok(end_with_error(readers[r].state)))]
       /\ UNCHANGED <<state, pc, executed, llm_calls, raised, returned, file, cache,
                      engine, upload>>

\* run_agent of a run after graph_app.invoke returned
RunReturn ==
    \E r \in RunIds :
       /\ readers[r].pc = END
       /\ readers' = [readers EXCEPT
                        ![r].returned = <<ReturnedAnswer(readers[r].state),
                                          debug_state(readers[r].state)>>,
                        ![r].pc = "done"]
       /\ UNCHANGED <<state, pc, executed, llm_calls, raised, returned, file, cache,
                      engine, upload>>

NextRuns ==
    \/ RunDetectIntent
    \/ RunExtractParams
    \/ RunLookup
    \/ RunRetrieveData
    \/ RunComputeAnswer
    \/ RunEndWithError
    \/ RunReturn

SpecRuns == InitRuns /\ [][NextRuns]_vars

(***************************************************************************)
(* The replacement of the dataset while queries run.  Streamlit runs each  *)
(* session's script in a thread of its own, so persist_uploaded_dataset    *)
(* (streamlit_app.py:65-88) and calls of get_assets_df()                   *)
(* (data_loader.py:43-67) interleave; neither takes a lock.                *)
(***************************************************************************)

\* the concurrent callers of get_assets_df()
NumReaders == 2

Readers == 1..NumReaders

\* the datasets at DATA_PATH before the upload, and the uploaded ones: a valid
\* table, and one without the profit column (persist_uploaded_dataset does not
\* validate the columns)
OldFiles == {GoodFile, EmptyFile}

NewFiles == {StrayFile, BadFile}

\* DATA_PATH between the open for writing, which truncates it, and the write
\* (write_bytes, streamlit_app.py:77; to_parquet, streamlit_app.py:82)
TruncatedFile == [exists |-> TRUE, columns |-> {}, rows |-> <<>>, truncated |-> TRUE]

\* the body of get_assets_df (data_loader.py:49-67) on the file as it is now:
\* pd.read_parquet fails on a file without content
ReadDataset(f) ==
    IF f = TruncatedFile THEN Raise("ArrowInvalid", "Parquet file size is 0 bytes")
    ELSE LoadAssetsDf(f)

\* a caller that has not called yet
IdleReader == [pc |-> "idle", after |-> FALSE, result |-> NotCalled]

InitReplace ==
    /\ state = InitialState("", Prompts("classify", "extract", "answer"))
    /\ pc = "replace"
    /\ executed = <<>>
    /\ llm_calls = <<>>
    /\ raised = NotRaised
    /\ returned = <<>>
    /\ file \in OldFiles
    /\ cache \in {EmptyCache, CacheAfter(file, EmptyCache)}
    /\ engine = NoEngineCall
    /\ \E new \in NewFiles : upload = [pc |-> "start", source |-> new, old |-> file]
    /\ readers = [r \in Readers |-> IdleReader]

\* persist_uploaded_dataset opens DATA_PATH for writing (streamlit_app.py:77, 82)
UploadOpen ==
    /\ upload.pc = "start"
    /\ file' = TruncatedFile
    /\ upload' = [upload EXCEPT !.pc = "opened"]
    /\ UNCHANGED <<state, pc, executed, llm_calls, raised, returned, cache, engine, readers>>

\* ... writes the uploaded content and reads it back (streamlit_app.py:77-78, 82)
UploadWrite ==
    /\ upload.pc = "opened"
    /\ file' = upload.source
    /\ upload' = [upload EXCEPT !.pc = "written"]
    /\ UNCHANGED <<state, pc, executed, llm_calls, raised, returned, cache, engine, readers>>

\* ... and clears the cache: get_assets_df.cache_clear() (streamlit_app.py:87)
UploadClear ==
    /\ upload.pc = "written"
    /\ cache' = EmptyCache
    /\ upload' = [upload EXCEPT !.pc = "done"]
    /\ UNCHANGED <<state, pc, executed, llm_calls, raised, returned, file, engine, readers>>

\* get_assets_df() is called: the lru_cache wrapper looks the entry up
\* (data_loader.py:43) and returns it, or goes on to the body
ReaderCall(r) ==
    /\ readers[r].pc = "idle"
    /\ readers' = [readers EXCEPT
                     ![r] = IF cache.loaded
                            THEN [pc |-> "done", after |-> upload.pc = "done",
                                  result |-> Ok(cache.df)]
                            ELSE [pc |-> "loading", after |-> upload.pc = "done",
                                  result |-> NotCalled]]
    /\ UNCHANGED <<state, pc, executed, llm_calls, raised, returned, file, cache, engine,
                   upload>>

\* the body of get_assets_df reads DATA_PATH (data_loader.py:49-67)
ReaderLoad(r) ==
    /\ readers[r].pc = "loading"
    /\ readers' = [readers EXCEPT ![r].pc = "loaded", ![r].result = ReadDataset(file)]
    /\ UNCHANGED <<state, pc, executed, llm_calls, raised, returned, file, cache, engine,
                   upload>>

\* the lru_cache wrapper stores what the body returned, unless an entry was
\* stored meanwhile, and returns it; an exception is not stored
ReaderReturn(r) ==
    /\ readers[r].pc = "loaded"
    /\ readers' = [readers EXCEPT ![r].pc = "done"]
    /\ cache' = IF readers[r].result.ok /\ ~cache.loaded
                THEN [loaded |-> TRUE, df |-> readers[r].result.val]
                ELSE cache
    /\ UNCHANGED <<state, pc, executed, llm_calls, raised, returned, file, engine, upload>>

NextReplace ==
    \/ UploadOpen
    \/ UploadWrite
    \/ UploadClear
    \/ \E r \in Readers : ReaderCall(r)
    \/ \E r \in Readers : ReaderLoad(r)
    \/ \E r \in Readers : ReaderReturn(r)

SpecReplace == InitReplace /\ [][NextReplace]_vars

(***************************************************************************)
(* The claims of the specification, each stated over the runs of Spec.     *)
(***************************************************************************)

\* one state for each dataset and strategy: the start of the run of the empty
\* query, where the claims about the query engine itself are evaluated
EachDataset == pc = START /\ state.user_query = ""

Terminals == {"compute_answer", "end_with_error"}

\* how many times a terminal node was started in the run
TerminalRuns == Cardinality({i \in 1..Len(executed) : executed[i] \in Terminals})

\* the run is over: run_agent returned, or an exception left it
RunOver == pc \in {"done", "raised"}

\* the node an exception left, when one did
RaisedIn(node) == pc = "raised" /\ executed[Len(executed)] = node

\* C1: whatever the query and whatever the model answers, the answer that
\* run_agent returns is never the empty text, and at completion answer or
\* error is non-empty.
C1_AnswerNeverEmpty ==
    pc = "done" =>
        /\ returned[1] # ""
        /\ (~Falsy(state.answer) \/ ~Falsy(state.error))

C3_NodeOrder ==
    LET order == <<"detect_intent", "extract_params", "retrieve_data">>
        n == Len(executed)
    IN  /\ n <= 4
        /\ \A i \in 1..n : IF i <= 3 THEN executed[i] = order[i] ELSE executed[i] \in Terminals
        /\ \A i \in 1..3 : pc = order[i] => n = i - 1
        /\ pc \in Terminals => n = 3
        /\ pc \in {END, "done"} => n = 4
        /\ n = 4 => (executed[4] = "end_with_error" <=> ~Falsy(state.error))

C3_Witness ==
    /\ pc = "done"
    /\ executed = <<"detect_intent", "extract_params", "retrieve_data", "compute_answer">>
    /\ state.intent = "price_comparison"

\* C4: whenever retrieve_data sets error, compute_answer does not run,
\* end_with_error does, and run_agent returns exactly the bare error text as
\* the answer, with the same text in diagnostics.error.
C4_ErrorIsTheAnswer ==
    (Len(executed) >= 3 /\ ~Falsy(state.error)) =>
        /\ pc # "compute_answer"
        /\ \A i \in 1..Len(executed) : executed[i] # "compute_answer"
        /\ pc \in {END, "done"} =>
              /\ executed[4] = "end_with_error"
              /\ state.answer = state.error
        /\ pc = "done" =>
              /\ returned[1] = state.error
              /\ returned[2].error = returned[1]

C4_Witness ==
    /\ pc = "done"
    /\ state.intent = "price_comparison"
    /\ state.error = "To compare, I need two property names."
    /\ returned[1] = "To compare, I need two property names."
    /\ returned[2].error = "To compare, I need two property names."

\* C5: retrieve_data never raises: a fault of the query engine (no dataset
\* file, a required column missing, wrongly typed parameters) is written to
\* error, no result is stored beside it, and the run ends with a textual
\* answer.
C5_RetrieveNeverRaises ==
    /\ ~RaisedIn("retrieve_data")
    /\ Len(executed) >= 3 =>
          /\ Falsy(state.error) <=> DOMAIN state.retrieved_data = {state.intent}
          /\ ~Falsy(state.error) => state.retrieved_data = <<>>
          /\ (file \in {NoFile, BadFile} /\ state.intent # "general_qa") => ~Falsy(state.error)
    /\ (pc = "done" /\ ~Falsy(state.error)) => returned[1] # ""

C5_Witness ==
    /\ pc = "done"
    /\ file = NoFile
    /\ state.intent = "total_pnl"
    /\ StartsAt(state.error, 1, "System Error: ")
    /\ returned[1] = state.error

\* the intents detect_intent may write
IntentLabels == {"price_comparison", "total_pnl", "asset_details", "general_qa", "data_query"}

\* detect_intent has just returned
IntentDetected == pc = "extract_params"

\* the reply the model gave detect_intent
IntentReply == llm_calls[1][2]

\* the model's label: its reply trimmed and lower-cased
ReplyLabel == Lower(Strip(IntentReply.val))

\* the keyword scan over the lower-cased query, in the order of precedence
\* data listing, aggregation, asset, none
ScanIntent(query) ==
    LET q == Lower(query)
        listing == \E k \in {"show all", "list all", "show rows", "list rows", "display rows",
                             "get all", "all rows", "all data", "filter by", "where month",
                             "where year", "for month", "for year", "records for"} :
                      Contains(q, k)
        aggregation == \E k \in {"total profit", "total loss", "total pnl", "sum of", "aggregate"} :
                          Contains(q, k)
        asset == \E k \in {"building", "property", "tenant", "rent", "asset"} : Contains(q, k)
    IN  IF listing THEN "data_query"
        ELSE IF aggregation THEN "total_pnl"
        ELSE IF asset THEN "asset_details"
        ELSE "general_qa"

\* C6: with the intent prompt configured, detect_intent never raises and the
\* intent it leaves is one of the five labels; a failed model call counts as
\* the label general_qa, and a label outside the five becomes general_qa.
C6_IntentInClosedSet ==
    /\ RaisedIn("detect_intent") => Falsy(state.strategy.intent_system_prompt)
    /\ IntentDetected =>
          /\ llm_calls[1][1] = "detect_intent"
          /\ state.intent \in IntentLabels
          /\ ~IntentReply.ok => state.intent = ScanIntent(state.user_query)
          /\ (IntentReply.ok /\ ReplyLabel \notin IntentLabels) => state.intent = "general_qa"

C6_Witness ==
    /\ IntentDetected
    /\ llm_calls = << <<"detect_intent", Ok("I think this is a comparison")>> >>
    /\ state.intent = "general_qa"

\* C7: when the model's label is general_qa or its call failed, the keyword
\* scan decides the intent: a data-listing phrase gives data_query even beside
\* aggregation or asset keywords, else an aggregation phrase gives total_pnl
\* even beside asset keywords, else an asset keyword gives asset_details, else
\* general_qa stays.
C7_KeywordPrecedence ==
    (IntentDetected /\ (~IntentReply.ok \/ ReplyLabel = "general_qa")) =>
        state.intent = ScanIntent(state.user_query)

C7_Witness ==
    /\ IntentDetected
    /\ IntentReply = Ok("general_qa")
    /\ state.user_query = "total profit Building 17"
    /\ state.intent = "total_pnl"

\* C8: a model label that is one of price_comparison, total_pnl,
\* asset_details, data_query is the final intent, whatever keywords the query
\* holds.
C8_NoOverrideOfOtherLabels ==
    (IntentDetected /\ IntentReply.ok
        /\ ReplyLabel \in {"price_comparison", "total_pnl", "asset_details", "data_query"}) =>
        state.intent = ReplyLabel

C8_Witness ==
    /\ IntentDetected
    /\ IntentReply = Ok("price_comparison")
    /\ state.user_query = "Show all rows total profit"
    /\ state.intent = "price_comparison"

\* extract_params has returned in this run
ParamsExtracted == Len(executed) >= 2 /\ ~RaisedIn("extract_params")

\* C9: whatever the intent, general_qa included, extract_params leaves
\* extracted_params with exactly the five fields addresses, year, month,
\* filters and action.
C9_FiveFields ==
    ParamsExtracted =>
        DOMAIN state.extracted_params = {"addresses", "year", "month", "filters", "action"}

\* C10: with the extraction prompt configured, extract_params returns without
\* raising for every text the model returns.
C10_ExtractNeverRaisesOnText ==
    (RaisedIn("extract_params") /\ ~Falsy(state.strategy.extract_system_prompt)) =>
        /\ Len(llm_calls) = 2
        /\ ~llm_calls[2][2].ok

\* the last call of the model was made by `node` and failed
ModelFailedIn(node) ==
    /\ llm_calls # <<>>
    /\ llm_calls[Len(llm_calls)][1] = node
    /\ ~llm_calls[Len(llm_calls)][2].ok

\* C11: with the extraction prompt configured, a failure of the model call
\* of extract_params does not leave the node: only a missing extraction
\* prompt ends the run there.
C11_ExtractAbsorbsModelFailure ==
    (~Falsy(state.strategy.extract_system_prompt) /\ ModelFailedIn("extract_params")) =>
        ~RaisedIn("extract_params")

\* C12: a missing prompt is fatal only at the first node that needs it: a
\* missing intent prompt raises in detect_intent before any model call; a
\* missing extraction prompt does not fail a general_qa run; a missing
\* general Q&A prompt does not fail a run of another intent; no
\* "not configured" error is raised by another node than the one that needs
\* the prompt.
C12_PromptFatalOnlyWhereNeeded ==
    LET sc == state.strategy
        NotConfigured(kind) ==
            /\ pc = "raised"
            /\ raised.exc = "ValueError"
            /\ StartsAt(raised.msg, 1, kind \o " system prompt not configured.")
    IN  /\ (Falsy(sc.intent_system_prompt) /\ executed # <<>>) =>
              /\ executed = <<"detect_intent">>
              /\ llm_calls = <<>>
              /\ NotConfigured("Intent")
        /\ NotConfigured("Intent") => (RaisedIn("detect_intent") /\ Falsy(sc.intent_system_prompt))
        /\ NotConfigured("Extract") =>
              /\ RaisedIn("extract_params")
              /\ Falsy(sc.extract_system_prompt)
              /\ state.intent # "general_qa"
              /\ Len(llm_calls) = 1
        /\ NotConfigured("General Q&A") =>
              /\ RaisedIn("compute_answer")
              /\ Falsy(sc.general_qa_system_prompt)
              /\ state.intent = "general_qa"
        /\ (Falsy(sc.extract_system_prompt) /\ state.intent = "general_qa") =>
              ~RaisedIn("extract_params")
        /\ (Falsy(sc.general_qa_system_prompt) /\ state.intent \notin {None, "general_qa"}) =>
              ~RaisedIn("compute_answer")

C12_Witness ==
    /\ pc = "done"
    /\ Falsy(state.strategy.extract_system_prompt)
    /\ ~Falsy(state.strategy.general_qa_system_prompt)
    /\ state.intent = "general_qa"
    /\ executed[4] = "compute_answer"

\* C13: every invocation of run_agent, whatever its outcome, returns an
\* answer with the diagnostic snapshot of the four keys intent,
\* extracted_params, retrieved_data and error.
C13_DiagnosticsAlwaysReturned ==
    RunOver =>
        /\ Len(returned) = 2
        /\ DOMAIN returned[2] = {"intent", "extracted_params", "retrieved_data", "error"}

\* the datasets a run may find, as get_assets_df() gives them on a first call
Loaded(f) == get_assets_df(f, EmptyCache)

MonthNeedsYear == "To filter by month, you must also specify the year (e.g., 'January 2025')."

RowsOfMonth(df, literal) == SelectSeq(df.rows, LAMBDA r : r[MONTH_COLUMN] = PyStr(literal))

\* C15: for every dataset, the flexible query with filters
\* {month: "<Y>-M<mm>"} selects exactly the rows whose month column is that
\* text, compute_total_pnl(year=Y, month=m) aggregates the same rows, and both
\* report the same total profit.
C15_MonthRoundTrip ==
    (engine.pnl # NotCalled /\ engine.query # NotCalled /\ Loaded(file).ok) =>
        LET exact == RowsOfMonth(Loaded(file).val, MonthLiteral(engine.year, engine.month))
        IN  /\ engine.query.ok
            /\ engine.query.val.count = Len(exact)
            /\ exact = <<>> => (engine.query.val.status = "no_data" /\ ~engine.pnl.ok)
            /\ exact # <<>> =>
                  /\ engine.pnl.ok
                  /\ engine.query.val.total_profit = SumProfit(exact)
                  /\ engine.pnl.val = engine.query.val.total_profit

\* no row of the dataset has a property name that contains the text, whatever the case
Unmatched(df, name) ==
    \A i \in 1..Len(df.rows) :
        ~Contains(Lower(PyToStr(df.rows[i][PROPERTY_COLUMN])), Lower(name))

NotFound(name) == "Property with name like '" \o name \o "' not found in dataset."

\* C16: a comparison in which either side matches no row fails as a whole,
\* whichever side it is: compare_assets_by_price raises and gives no totals,
\* nothing is written to retrieved_data, and the answer is the error text, not
\* a comparison.
C16_NoPartialComparison ==
    /\ (EachDataset /\ Loaded(file).ok) =>
          \A a1, a2 \in {"Building 17", "Building 22", "Building 999"} :
              LET df == Loaded(file).val
                  out == compare_assets_by_price(Loaded(file), PyStr(a1), PyStr(a2))
              IN  /\ Unmatched(df, a1) => out = Raise("ValueError", NotFound(a1))
                  /\ (~Unmatched(df, a1) /\ Unmatched(df, a2)) =>
                        out = Raise("ValueError", NotFound(a2))
                  /\ (~Unmatched(df, a1) /\ ~Unmatched(df, a2)) => out.ok
    /\ (/\ Len(executed) >= 3
        /\ state.intent = "price_comparison"
        /\ cache.loaded
        /\ state.extracted_params.addresses.t = "list"
        /\ Len(state.extracted_params.addresses.v) >= 2
        /\ \E i \in 1..2 : Unmatched(cache.df, PyToStr(state.extracted_params.addresses.v[i]))) =>
          /\ state.retrieved_data = <<>>
          /\ \E i \in 1..2 :
                state.error = NotFound(PyToStr(state.extracted_params.addresses.v[i]))
          /\ pc # "compute_answer"
          /\ pc \in {END, "done"} => (executed[4] = "end_with_error" /\ state.answer = state.error)
          /\ pc = "done" => returned = <<state.error, debug_state(state)>>

C16_Witness ==
    /\ pc = "done"
    /\ file = GoodFile
    /\ state.intent = "price_comparison"
    /\ state.extracted_params.addresses = PyList(<<PyStr("Building 17"), PyStr("Building 999")>>)
    /\ state.error = NotFound("Building 999")
    /\ state.retrieved_data = <<>>
    /\ returned[1] = NotFound("Building 999")

NoRecords == "No records found matching the filters."

\* filters that no row of the model's datasets matches
UnmatchedFilters ==
    {PyDict(<< <<"ledger_type", PyStr("zzz")>> >>),
     PyDict(<< <<"year", PyInt(1999)>> >>),
     PyDict(<< <<"property_name", PyStr("Building 17")>>, <<"month", PyStr("2030-M01")>> >>)}

\* C17: a flexible query whose filters match no row returns status no_data
\* with count 0 and the filters it was given, with no rows, aggregations or
\* counts, whatever the action; the answer composed from it is the message
\* alone, without a table.
C17_NoDataResult ==
    /\ (EachDataset /\ Loaded(file).ok) =>
          \A filters \in UnmatchedFilters \cup (IF file = EmptyFile THEN {PyNone, PyDict(<<>>)} ELSE {}),
             action \in {PyStr("show"), PyStr("aggregate"), PyStr("count"), PyStr("sum")} :
              query_data_flexible(Loaded(file), filters, action, QueryLimit)
                 = Ok([status |-> "no_data", message |-> NoRecords, filters |-> filters,
                       count |-> 0])
    /\ (Len(executed) >= 3 /\ "data_query" \in DOMAIN state.retrieved_data) =>
          LET query_result == state.retrieved_data.data_query
          IN  /\ query_result.status = "success" => query_result.count > 0
              /\ query_result.status = "no_data" =>
                    /\ DOMAIN query_result = {"status", "message", "filters", "count"}
                    /\ query_result.count = 0
                    /\ query_result.filters = state.extracted_params.filters
                    /\ pc \in {END, "done"} => state.answer = NoRecords
                    /\ pc = "done" => (returned[1] = NoRecords /\ ~Contains(returned[1], "|"))

C17_Witness ==
    /\ pc = "done"
    /\ file = GoodFile
    /\ "data_query" \in DOMAIN state.retrieved_data
    /\ state.retrieved_data.data_query.status = "no_data"
    /\ state.retrieved_data.data_query.filters = PyDict(<< <<"ledger_type", PyStr("zzz")>> >>)
    /\ returned[1] = NoRecords

\* the rows compute_total_pnl(year, month) is asked to add up
RowsOfPeriod(df, year, month) ==
    SelectSeq(df.rows,
        LAMBDA r : /\ year # PyNone => r[YEAR_COLUMN] = year
                   /\ (year # PyNone /\ month # PyNone) =>
                         r[MONTH_COLUMN] = PyStr(MonthLiteral(year, month)))

\* C18: compute_total_pnl never returns a value for an empty row set: for
\* every dataset and every (year, month) whose rows are none, the empty
\* dataset without filters included, it fails, with an error that names the
\* requested period; a value returned is the sum of a non-empty row set.
C18_EmptyPeriodFails ==
    (engine.pnl # NotCalled /\ Loaded(file).ok) =>
        LET chosen == RowsOfPeriod(Loaded(file).val, engine.year, engine.month)
            period == IF engine.month = PyNone THEN PyToStr(engine.year)
                      ELSE MonthLiteral(engine.year, engine.month)
        IN  /\ chosen = <<>> => ~engine.pnl.ok
            /\ (chosen = <<>> /\ (engine.month = PyNone \/ engine.year # PyNone)) =>
                  engine.pnl = Raise("ValueError",
                                     "No financial records found for the period: "
                                     \o period \o ".")
            /\ engine.pnl.ok => (chosen # <<>> /\ engine.pnl.val = SumProfit(chosen))

C18_Witness ==
    /\ file = EmptyFile
    /\ engine.year = PyNone
    /\ engine.month = PyNone
    /\ engine.pnl = Raise("ValueError", "No financial records found for the period: None.")

\* the DataFrames of the dataset before and after the upload
OldFrame == LoadAssetsDf(upload.old)

NewFrame == LoadAssetsDf(upload.source)

\* C19: no reader observes a half-replaced dataset: in every interleaving of
\* persist_uploaded_dataset with concurrent calls of get_assets_df(), each
\* call returns the complete old dataset or the complete new one.
C19_NoHalfReplacedRead ==
    upload.pc # "none" =>
        \A r \in Readers :
            readers[r].pc \in {"loaded", "done"} =>
                readers[r].result \in {OldFrame, NewFrame}

\* C20: once the replacement has completed (the cache is cleared), the cache
\* never holds the old dataset again and every call of get_assets_df() made
\* from then on returns the new dataset, whatever the readers that were
\* under way did.
C20_NewDatasetAfterReplacement ==
    upload.pc = "done" =>
        /\ cache.loaded => Ok(cache.df) = NewFrame
        /\ \A r \in Readers :
              (readers[r].pc = "done" /\ readers[r].after) =>
                  readers[r].result = NewFrame

\* C22: within a run, user_query and strategy keep their initial values
\* through every node, and intent, once detect_intent has written it, is
\* never written again by extract_params, retrieve_data, compute_answer or
\* end_with_error.
C22_FrameOfTheRun ==
    [][/\ state'.user_query = state.user_query
       /\ state'.strategy = state.strategy
       /\ executed # <<>> => state'.intent = state.intent]_vars

C22_Witness ==
    /\ pc = "done"
    /\ executed = <<"detect_intent", "extract_params", "retrieve_data", "end_with_error">>
    /\ state.intent = "data_query"
    /\ state.user_query = "Show all rows"

\* the total profit of the rows a property query selects
TotalOf(df, name) == SumProfit(filter_by_property(df, PyStr(name)).val)

\* the answer says that the property `name` generated `amount` more profit
NamesBetter(answer, name, amount) ==
    Contains(answer, "The property **" \o name \o "** generated " \o Money(amount)
                     \o " more profit.")

\* a comparison whose difference is total(A) - total(B) and whose answer names the
\* side with the higher total and the absolute difference, never the lower side
ComparisonSound(comp, answer, t1, t2) ==
    LET n1 == PyToStr(comp.asset_1.property_name)
        n2 == PyToStr(comp.asset_2.property_name)
    IN  /\ comp.asset_1.value = t1
        /\ comp.asset_2.value = t2
        /\ comp.difference = t1 - t2
        /\ t1 > t2 => (NamesBetter(answer, n1, t1 - t2)
                       /\ (n1 # n2 => ~Contains(answer, "The property **" \o n2 \o "**")))
        /\ t1 < t2 => (NamesBetter(answer, n2, t2 - t1)
                       /\ (n1 # n2 => ~Contains(answer, "The property **" \o n1 \o "**")))
        /\ t1 = t2 => (NamesBetter(answer, n1, 0) \/ NamesBetter(answer, n2, 0))

\* C23: for every successful comparison, difference is total(A) - total(B)
\* and the composed answer names the property with the higher total profit
\* together with the absolute difference; it never names the lower-profit
\* side, when A is lower than B and when the totals are equal included.
C23_ComparisonNamesTheHigher ==
    /\ (EachDataset /\ Loaded(file).ok) =>
          \A a1, a2 \in {"Building 17", "Building 22", "Building 170"} :
              LET df == Loaded(file).val
                  out == compare_assets_by_price(Loaded(file), PyStr(a1), PyStr(a2))
              IN  out.ok => ComparisonSound(out.val, AnswerPriceComparison(out.val),
                                            TotalOf(df, a1), TotalOf(df, a2))
    /\ (/\ pc \in {END, "done"}
        /\ state.intent = "price_comparison"
        /\ "price_comparison" \in DOMAIN state.retrieved_data) =>
          LET addresses == state.extracted_params.addresses
          IN  /\ ComparisonSound(state.retrieved_data.price_comparison, state.answer,
                                 TotalOf(cache.df, PyToStr(PyItem(addresses, 0).val)),
                                 TotalOf(cache.df, PyToStr(PyItem(addresses, 1).val)))
              /\ pc = "done" => returned[1] = state.answer

C23_Witness ==
    /\ pc = "done"
    /\ state.intent = "price_comparison"
    /\ "price_comparison" \in DOMAIN state.retrieved_data
    /\ state.retrieved_data.price_comparison.difference = -200
    /\ NamesBetter(returned[1], "Building 17", 200)

\* the four operations of the query engine on the outcome of a get_assets_df() call
\* all fail
EveryQueryFails(got) ==
    /\ ~compare_assets_by_price(got, PyStr("Building 17"), PyStr("Building 22")).ok
    /\ ~get_single_asset(got, PyStr("Building 17")).ok
    /\ ~compute_total_pnl(got, PyNone, PyNone).ok
    /\ ~query_data_flexible(got, PyDict(<<>>), PyStr("show"), DefaultLimit).ok

\* C24: a dataset missing a required column is rejected wholesale: once such
\* a file is the dataset (its upload has completed), every query that touches
\* the dataset ends with an error, on the first access and on every later
\* one.
C24_RejectedWholesale ==
    (upload.pc = "done" /\ ~ValidateColumns(upload.source.columns).ok) =>
        \A r \in Readers :
            (readers[r].pc = "done" /\ readers[r].after) => EveryQueryFails(readers[r].result)

\* no node was started twice
NoNodeTwice == \A i, j \in 1..Len(executed) : executed[i] = executed[j] => i = j

\* the nodes of the graph
GraphNodes ==
    {"detect_intent", "extract_params", "retrieve_data", "compute_answer", "end_with_error"}

\* the steps a run has left at most: one for each node not yet started, and the
\* return of run_agent
StepsLeft == IF RunOver THEN 0 ELSE IF pc = END THEN 1 ELSE 5 - Len(executed)

\* C25: every run terminates: each model call returning or failing, the
\* run is over (run_agent returned or raised) after finitely many node
\* executions: every step brings the end nearer, leaves the run over or at a
\* node or the end of the graph, and starts no node a second time (no retry,
\* no loop back to an earlier node).
C25_EveryRunTerminates ==
    [][/\ StepsLeft' < StepsLeft
       /\ StepsLeft' >= 0
       /\ RunOver' \/ pc' \in GraphNodes \cup {END}
       /\ NoNodeTwice']_vars

C25_Witness ==
    /\ pc = "done"
    /\ Len(executed) = 4
    /\ NoNodeTwice
    /\ state.intent = "general_qa"

\* the state extract_params has just returned, the model having replied a text
ExtractReturned ==
    /\ pc = "retrieve_data"
    /\ Len(executed) = 2
    /\ Len(llm_calls) = 2
    /\ llm_calls[2][2].ok

ExtractReply == llm_calls[2][2].val

\* the "Building <digits>" mentions of each of the Fragments, as the extractor
\* writes them
FragmentMentions == << <<>>, <<>>, <<"Building 17">>, <<"Building 22">>, <<>> >>

\* the mentions of a query made of fragments, in the order of the query
RECURSIVE MentionsOfList(_)
MentionsOfList(fl) ==
    IF fl = <<>> THEN <<>> ELSE FragmentMentions[Head(fl)] \o MentionsOfList(Tail(fl))

Mentions(query) ==
    MentionsOfList(CHOOSE fl \in FragmentLists(MaxFragments) :
                      query = Strip(Join(" ", [i \in 1..Len(fl) |-> Fragments[fl[i]]])))

\* the replies that are no JSON object, which send extract_params to its regex
\* fallback, and the reply that names a building in filters.property_name only
FallbackReplies == {"not json at all", "", "[1, 2]"}

FilterOnlyReply == "{\"filters\": {\"property_name\": \"Building 17\"}, \"action\": \"count\"}"

\* C26: when the extractor would leave addresses empty while buildings are
\* mentioned (the regex fallback, or a reply with a "Building" value in
\* filters.property_name only), addresses is the list of all "Building
\* <digits>" mentions of the raw query in first-seen order, and in the
\* fallback filters.property_name is the first mention; with a "Building"
\* filter value and no mention in the query, addresses is that one value.
C26_AddressesFromMentions ==
    ExtractReturned =>
        LET ep == state.extracted_params
            m == Mentions(state.user_query)
            listed == PyList([i \in 1..Len(m) |-> PyStr(m[i])])
        IN  /\ (ExtractReply \in FallbackReplies /\ m # <<>>) =>
                  /\ ep.addresses = listed
                  /\ DictGet(ep.filters.v, "property_name", PyNone) = PyStr(m[1])
            /\ (ExtractReply \in FallbackReplies /\ m = <<>>) =>
                  /\ ep.addresses = PyList(<<>>)
                  /\ ~DictHas(ep.filters.v, "property_name")
            /\ (ExtractReply = FilterOnlyReply /\ m # <<>>) => ep.addresses = listed
            /\ (ExtractReply = FilterOnlyReply /\ m = <<>>) =>
                  ep.addresses = PyList(<<PyStr("Building 17")>>)
            /\ ExtractReply = FilterOnlyReply =>
                  ep.filters = PyDict(<< <<"property_name", PyStr("Building 17")>> >>)

C26_Witness ==
    /\ ExtractReturned
    /\ ExtractReply = "not json at all"
    /\ state.user_query = "building 22 2025-M01 Building 17"
    /\ state.extracted_params.addresses = PyList(<<PyStr("Building 22"), PyStr("Building 17")>>)
    /\ DictGet(state.extracted_params.filters.v, "property_name", PyNone) = PyStr("Building 22")

\* the "<year>-M<2-digit-month>" token each of the DateQueries holds, "" for none
TokenIn(query) ==
    CASE query = "profit 2025-M01" -> "2025-M01"
      [] query = "profit 2019-M05" -> "2019-M05"
      [] query = "2025-M01 against 2024" -> "2025-M01"
      [] query = "2024 then 2025-M02" -> "2025-M02"
      [] OTHER -> ""

\* the year of the token
TokenYearIn(query) ==
    CASE query = "profit 2025-M01" -> 2025
      [] query = "profit 2019-M05" -> 2019
      [] query = "2025-M01 against 2024" -> 2025
      [] query = "2024 then 2025-M02" -> 2025
      [] OTHER -> 0

\* the first bare four-digit year beginning with "202" of a query without a token,
\* 0 for none
BareYearIn(query) ==
    CASE query = "all of 2024" -> 2024
      [] query = "rows of 2025-M1" -> 2025
      [] OTHER -> 0

\* C27: in the regex fallback, a "<year>-M<2-digit-month>" token of the query
\* sets filters.month to the token and year to its four-digit prefix, the
\* bare-year rule not being applied; without a token, year is the first bare
\* four-digit year beginning with "202"; with neither, year stays unset and
\* filters has no month.
C27_DatesOfTheFallback ==
    (ExtractReturned /\ ExtractReply \in FallbackReplies /\ state.user_query \in DateQueries) =>
        LET ep == state.extracted_params
            q == state.user_query
        IN  /\ TokenIn(q) # "" =>
                  /\ DictGet(ep.filters.v, "month", PyNone) = PyStr(TokenIn(q))
                  /\ ep.year = PyInt(TokenYearIn(q))
            /\ (TokenIn(q) = "" /\ BareYearIn(q) # 0) =>
                  /\ ep.year = PyInt(BareYearIn(q))
                  /\ ~DictHas(ep.filters.v, "month")
            /\ (TokenIn(q) = "" /\ BareYearIn(q) = 0) =>
                  /\ ep.year = PyNone
                  /\ ~DictHas(ep.filters.v, "month")

\* retrieve_data has returned in a run whose extraction took the regex fallback
\* on a query that holds a "<year>-M<mm>" token
TokenRetrieved ==
    /\ Len(executed) >= 3
    /\ pc \notin {"retrieve_data", "raised"}
    /\ Len(llm_calls) >= 2
    /\ llm_calls[2][2].ok
    /\ ExtractReply \in FallbackReplies
    /\ state.user_query \in DateQueries
    /\ TokenIn(state.user_query) # ""

\* the rows of the valid dataset of a year, and those of a month of that year
RowsOfYear(y) ==
    SelectSeq(Loaded(GoodFile).val.rows, LAMBDA r : r[YEAR_COLUMN] = PyInt(y))

RowsOfToken(y, token) ==
    SelectSeq(RowsOfYear(y), LAMBDA r : r[MONTH_COLUMN] = PyStr(token))

\* C30: on the regex fallback path extracted_params.month is always null, a
\* month being carried in filters.month only: for intent total_pnl a query
\* with a "<year>-M<mm>" token is aggregated over the whole year of the
\* token, not over its month, while for intent data_query the same query is
\* restricted to that month.
C30_TokenIsAYearForTotalPnl ==
    TokenRetrieved =>
        LET y == TokenYearIn(state.user_query)
            token == TokenIn(state.user_query)
        IN  /\ state.extracted_params.month = PyNone
            /\ state.intent = "total_pnl" =>
                  IF RowsOfYear(y) = <<>>
                  THEN /\ state.retrieved_data = <<>>
                       /\ state.error = "No financial records found for the period: "
                                        \o ToString(y) \o "."
                  ELSE state.retrieved_data =
                          ("total_pnl" :> [year |-> PyInt(y), month |-> PyNone,
                                           value |-> SumProfit(RowsOfYear(y))])
            /\ state.intent = "data_query" =>
                  /\ "data_query" \in DOMAIN state.retrieved_data
                  /\ LET res == state.retrieved_data.data_query
                     IN  IF RowsOfToken(y, token) = <<>>
                         THEN res.status = "no_data"
                         ELSE /\ res.status = "success"
                              /\ res.count = Len(RowsOfToken(y, token))
                              /\ res.total_profit = SumProfit(RowsOfToken(y, token))

\* C29: retrieve_data writes only error or retrieved_data: for every intent,
\* data_query with a year or a month set included, extracted_params and its
\* filters mapping are after retrieve_data what extract_params produced, so
\* the diagnostics report the extractor's output unchanged.
C29_RetrieveLeavesParams ==
    [][pc = "retrieve_data" =>
          /\ state'.extracted_params = state.extracted_params
          /\ state'.user_query = state.user_query
          /\ state'.intent = state.intent
          /\ state'.strategy = state.strategy
          /\ state'.answer = state.answer]_vars

\* filters over the valid dataset, each with the rows (by position) it selects:
\* texts match as case-blind substrings, numbers by equality, and "color" is no
\* column of the dataset
FilterCases ==
    { <<PyDict(<<>>), <<1, 2, 3, 4>>>>,
      <<PyDict(<< <<"property_name", PyStr("building 17")>> >>), <<1, 2, 4>>>>,
      <<PyDict(<< <<"property_name", PyStr("Building 22")>> >>), <<3>>>>,
      <<PyDict(<< <<"year", PyInt(2025)>> >>), <<1, 2>>>>,
      <<PyDict(<< <<"month", PyStr("2024-M12")>> >>), <<3, 4>>>>,
      <<PyDict(<< <<"color", PyStr("red")>> >>), <<1, 2, 3, 4>>>>,
      <<PyDict(<< <<"year", PyInt(2025)>>, <<"color", PyStr("red")>> >>), <<1, 2>>>>,
      <<PyDict(<< <<"color", PyInt(7)>>, <<"month", PyStr("2024-M12")>> >>), <<3, 4>>>>,
      <<PyDict(<< <<"property_name", PyStr("Building 17")>>,
                  <<"month", PyStr("2025-M02")>> >>), <<2>>>> }

\* the limits of the calls: below, at and above the sizes of the selections
QueryLimits == {1, 2, 3, QueryLimit}

\* the keys every non-empty result has, and the section of each action
ResultKeys == {"status", "filters", "count", "total_profit"}

SectionKeys(action) ==
    CASE action = PyStr("show") -> {"rows", "showing", "total_rows"}
      [] action = PyStr("aggregate") -> {"aggregations"}
      [] action = PyStr("count") -> {"counts"}
      [] OTHER -> {}

MinOf(a, b) == IF a < b THEN a ELSE b

\* a non-empty result res of a query with this action and limit whose filters
\* select the rows picked
ResultSound(res, df, picked, action, limit) ==
    /\ res.status = "success"
    /\ DOMAIN res = ResultKeys \cup SectionKeys(action)
    /\ res.count = Len(picked)
    /\ res.total_profit = SumProfit(picked)
    /\ action = PyStr("show") =>
          /\ res.showing = MinOf(limit, Len(picked))
          /\ res.total_rows = Len(picked)
          /\ res.rows = Records(df, SubSeq(picked, 1, MinOf(limit, Len(picked))))
    /\ action = PyStr("aggregate") => DOMAIN res.aggregations =
                                        {"by_ledger_type", "by_property", "by_year"}
    /\ action = PyStr("count") => res.counts.total = Len(picked)

\* C28: every non-empty result of a flexible query carries count and
\* total_profit of all the rows the filters match, and exactly the section its
\* action selects: show gives rows with showing = min(limit, count) and
\* total_rows = count, aggregate gives aggregations only, count gives counts
\* only with counts.total = count; a filter on a column the dataset does not
\* have leaves the selected rows as they are.
C28_FlexibleResultShape ==
    /\ EachDataset /\ file = GoodFile =>
          \A fc \in FilterCases, action \in EngineActions \cup {PyStr("list")},
             limit \in QueryLimits :
             LET df == Loaded(file).val
                 picked == [i \in 1..Len(fc[2]) |-> df.rows[fc[2][i]]]
                 got == query_data_flexible(Loaded(file), fc[1], action, limit)
             IN  got.ok /\ ResultSound(got.val, df, picked, action, limit)
    /\ (/\ "data_query" \in DOMAIN state.retrieved_data
        /\ state.retrieved_data.data_query.status = "success") =>
          LET res == state.retrieved_data.data_query
              action == ParamOf(state.extracted_params, "action", PyStr("show"))
          IN  /\ DOMAIN res = ResultKeys \cup SectionKeys(action)
              /\ res.count > 0
              /\ action = PyStr("show") =>
                    /\ res.showing = MinOf(QueryLimit, res.count)
                    /\ res.total_rows = res.count
                    /\ Len(res.rows) = res.showing
              /\ action = PyStr("count") => res.counts.total = res.count

\* a run has counted the three rows whose property name holds "Building 17"
C28_Witness ==
    /\ pc = "done"
    /\ state.intent = "data_query"
    /\ "data_query" \in DOMAIN state.retrieved_data
    /\ state.retrieved_data.data_query.status = "success"
    /\ state.retrieved_data.data_query.count = 3
    /\ state.retrieved_data.data_query.total_profit = 800
    /\ state.retrieved_data.data_query.counts.total = 3
    /\ "rows" \notin DOMAIN state.retrieved_data.data_query

\* the reply the model gave to a node in a run's calls, or none
ReplyTo(calls, node) ==
    IF \E i \in 1..Len(calls) : calls[i][1] = node
    THEN calls[CHOOSE i \in 1..Len(calls) : calls[i][1] = node][2]
    ELSE NoReply

\* the outcome of run_agent with no other run in the process, for a query, prompts,
\* the model's replies and the dataset file: what it returns, or what it raises
Alone(user_query, strategy_config, calls, f) ==
    LET s0 == InitialState(user_query, strategy_config)
        n1 == detect_intent(s0, ReplyTo(calls, "detect_intent"))
        n2 == extract_params(n1.val, ReplyTo(calls, "extract_params"))
        n3 == retrieve_data(n2.val, Loaded(f))
        n4 == IF Edge("retrieve_data", n3.val) = "end_with_error"
              THEN Ok(end_with_error(n3.val))
              ELSE compute_answer(n3.val, ReplyTo(calls, "compute_answer"))
        failed(n) == [returned |-> <<>>, raised |-> [exc |-> n.exc, msg |-> n.msg]]
    IN  IF ~n1.ok THEN failed(n1)
        ELSE IF ~n2.ok THEN failed(n2)
        ELSE IF ~n3.ok THEN failed(n3)
        ELSE IF ~n4.ok THEN failed(n4)
        ELSE [returned |-> <<ReturnedAnswer(n4.val), debug_state(n4.val)>>,
              raised |-> NotRaised]

\* a run is over: run_agent returned, or an exception left it
Finished(run) == run.pc \in {"done", "raised"}

\* C21: concurrent invocations do not interfere: in every interleaving of two
\* runs over the same unchanged dataset, the answer and the diagnostics of
\* each run (or the exception that leaves it) are what that run returns
\* alone with the same query and the same replies of the model, and no query
\* operation modifies the cached dataset: the cache holds nothing or the
\* DataFrame loaded from the file.
C21_RunsDoNotInterfere ==
    /\ \A r \in RunIds :
          Finished(readers[r]) =>
             LET alone == Alone(readers[r].state.user_query, readers[r].state.strategy,
                                readers[r].llm_calls, file)
             IN  /\ readers[r].returned = alone.returned
                 /\ readers[r].raised = alone.raised
    /\ cache.loaded => Ok(cache.df) = Loaded(file)

\* both runs missed the cache and loaded the dataset, the second one stored its
\* DataFrame and the first one kept that entry, and both returned: the first one a
\* total, the second one a comparison
C21_Witness ==
    /\ readers[1].pc = "done"
    /\ readers[2].pc = "done"
    /\ cache.loaded
    /\ readers[1].lookup = "miss" /\ readers[1].store = "kept"
    /\ readers[2].lookup = "miss" /\ readers[2].store = "stored"
    /\ "total_pnl" \in DOMAIN readers[1].state.retrieved_data
    /\ "price_comparison" \in DOMAIN readers[2].state.retrieved_data
    /\ readers[1].returned[1] # readers[2].returned[1]

TextSelfTest ==
    /\ Lower("Show ALL 2025-M01") = "show all 2025-m01"
    /\ Strip("  a b \n") = "a b"
    /\ Strip("   ") = ""
    /\ Contains("current", "rent")
    /\ Contains("abc", "")
    /\ ~Contains("abc", "cb")
    /\ Replace("'''json\n{}\n'''", "'''json", "") = "\n{}\n'''"
    /\ Replace(Replace("'''json\n{}\n'''", "'''json", ""), "'''", "") = "\n{}\n"
    /\ DigitsEnd("ab123x", 3) = 6 /\ SpacesEnd("a \n b", 2) = 5
    /\ ParseInt("2025") = 2025
    /\ Pad2(3) = "03" /\ Pad2(12) = "12"
    /\ Join(", ", <<"a", "b", "c">>) = "a, b, c"
    /\ StrLess("Building 17", "Building 22") /\ ~StrLess("b", "B") /\ StrLess("ab", "abc")
    /\ Money(1234567) = "1,234,567.00" /\ Money(-200) = "-200.00" /\ Money(1000) = "1,000.00"
    /\ ~LoadAssetsDf(BadFile).ok
    /\ LoadAssetsDf(BadFile).msg = "Dataset is missing required columns: profit"
    /\ LoadAssetsDf(GoodFile).val.rows[4]["profit"] = PyInt(0)
    /\ LoadAssetsDf(GoodFile).val.rows[4]["year"] = NaN
    /\ DictGet(DictSet(<<>>, "a", PyInt(1)), "a", PyNone) = PyInt(1)
    /\ DetectLabel("Show ALL rows", Ok("general_qa")) = "data_query"
    /\ DetectLabel("the current mood", LLMFailure) = "asset_details"
    /\ DetectLabel("Show all rows", Ok(" Total_PNL\n")) = "total_pnl"
    /\ DetectLabel("hi", Ok("I think this is a comparison")) = "general_qa"
    /\ \A r \in ExtractReplies :
          json_loads(Strip(Replace(Replace(r, "'''json", ""), "'''", ""))).ok
          <=> r \notin {"", "not json at all"}
    /\ FallbackExtract("compare Building 17 and building  22 in 2025-M01 for Tenant 3")
        = [addresses |-> PyList(<<PyStr("Building 17"), PyStr("Building 22")>>),
           year |-> PyInt(2025), month |-> PyNone,
           filters |-> PyDict(<< <<"month", PyStr("2025-M01")>>,
                                 <<"property_name", PyStr("Building 17")>>,
                                 <<"tenant_name", PyStr("Tenant 3")>> >>),
           action |-> PyStr("show")]
    /\ FallbackExtract("total for 2024 buildings") 
        = [addresses |-> PyList(<<>>), year |-> PyInt(2024), month |-> PyNone,
           filters |-> PyDict(<<>>), action |-> PyStr("aggregate")]
    /\ FallbackExtract("in 202").year = PyNone /\ FallbackExtract("Building ").addresses = PyList(<<>>)
    /\ FallbackExtract("2025-M1 tenant 7").filters = PyDict(<< <<"tenant_name", PyStr("Tenant 7")>> >>)
    /\ FallbackExtract("") 
        = [addresses |-> PyList(<<>>), year |-> PyNone, month |-> PyNone,
           filters |-> PyDict(<<>>), action |-> PyStr("show")]
    /\ TryExtract("{\"filters\": {\"property_name\": \"Building 17\"}, \"action\": \"count\"}", "x").action = PyStr("count")
    /\ FixAddresses(TryExtract("{\"filters\": {\"property_name\": \"Building 17\"}, \"action\": \"count\"}", "x"), "x").val.addresses = PyList(<<PyStr("Building 17")>>)
    /\ ~FixAddresses(TryExtract("{\"filters\": null}", "x"), "x").ok
    /\ LET got == LoadAssetsDf(GoodFile)
       IN  /\ compute_total_pnl(got, PyInt(2025), PyInt(1)) = Ok(1000)
           /\ compute_total_pnl(got, PyInt(2025), PyNone) = Ok(800)
           /\ compute_total_pnl(got, PyNone, PyNone) = Ok(1400)
           /\ ~compute_total_pnl(got, PyNone, PyInt(3)).ok
           /\ compute_total_pnl(got, PyInt(2023), PyNone).msg
                = "No financial records found for the period: 2023."
           /\ compare_assets_by_price(got, PyStr("building 22"), PyStr("Building 170")).val.difference = 600
           /\ compare_assets_by_price(got, PyStr("Building 17"), PyStr("Building 22")).val.difference = 200
           /\ get_single_asset(got, PyStr("Building 17")).val.tenants = <<PyStr("Tenant 3")>>
           /\ get_single_asset(got, PyStr("Building 17")).val.total_records = 3
           /\ get_single_asset(got, PyStr("Building 99")) = Ok(PyNone)
           /\ query_data_flexible(got, PyDict(<< <<"month", PyStr("2025-M01")>> >>), PyStr("show"), 200).val.count = 1
           /\ query_data_flexible(got, PyDict(<< <<"year", PyStr("2025")>>, <<"nocol", PyInt(1)>> >>), PyStr("aggregate"), 200).val.aggregations.by_ledger_type
                = << <<PyStr("expenses"), -200>>, <<PyStr("revenue"), 1000>> >>
           /\ query_data_flexible(got, PyNone, PyStr("count"), 200).val.counts.by_property
                = << <<PyStr("Building 17"), 2>>, <<PyStr("Building 22"), 1>>, <<PyStr("Building 170"), 1>> >>
           /\ query_data_flexible(got, PyNone, PyStr("aggregate"), 200).val.aggregations.by_year
                = << <<PyFloat(2024), 600>>, <<PyFloat(2025), 800>> >>
           /\ summarize_asset_record(get_single_asset(got, PyStr("Building 22")).val)
                = "Property: Building 22\nEntity: Entity B\nTotal records: 1\nNet Profit (P&L): 600.00\nTenants: Tenant 8\nBreakdown by Ledger Type:\n  - revenue: 600.00"
====
